---- MODULE Spec2Model ----
(***************************************************************************)
(* Light Editor: the isolate / backup-restore engine of LightEditor.py.    *)
(*                                                                         *)
(* The scene (light objects, material node trees, the world node tree) is  *)
(* state owned by the host; UnifiedIsolateManager, UnifiedOnOffManager,    *)
(* the emissive cache and the per-material toggle store are the module     *)
(* globals of LightEditor.py.  Every operator and handler runs to          *)
(* completion inside one host callback, so each is one action.             *)
(*                                                                         *)
(* Encoding of Python values:                                              *)
(*   None (mode)            "None"                                         *)
(*   None (link, record)    << >>                                          *)
(*   dict                   sequence of [k, v] entries in insertion order  *)
(*   str key  "L1"          << "L1" >>      (one-element tuple)            *)
(*   tuple key (mat, node)  << mat, node >> (two-element tuple)            *)
(* so that a string key and a tuple key are never equal, and two string    *)
(* keys are equal exactly when the strings are.                            *)
(***************************************************************************)
EXTENDS Integers, Sequences, FiniteSets, TLC

\* ------------------------------------------------------------------ bounds
NumLights == 2
MaxStrength == 2
\* activations in a row without a deactivate in between
MaxNested == 2

AllLightNames == << "L1", "L2", "L3", "L4" >>
LightOrder == SubSeq(AllLightNames, 1, NumLights)
LightNames == { LightOrder[i] : i \in 1..NumLights }
\* a light named like the key of a world link, and the order in which the
\* light objects are visited: it is in a scene only where light says so
EnvNamedLight == "env_link_Surface"
ObjectOrder == LightOrder \o << EnvNamedLight >>

MatOrder == << "M1", "M2" >>
MatNames == { "M1", "M2" }
NodeOrder == << "N1", "N2" >>
NodeNames == { "N1", "N2" }
\* "V" is a Value node: the source of a linked strength socket
AllNodes == NodeNames \cup { "V" }
StrengthVals == 0..MaxStrength
NoLink == << >>
ValueLink == << "V", "Value" >>
EnvSockets == << "Surface", "Volume" >>
SurfaceSrc == << "Background", "Background" >>
VolumeSrc == << "Volume Scatter", "Volume" >>
\* a third shader node of the world tree, linked to no output at first
UserSrc == << "Emission", "Emission" >>
WorldNodes == { SurfaceSrc[1], VolumeSrc[1], UserSrc[1] }

\* ---------------------------------------------------------------- the state
VARIABLES
  light,          \* bpy.data.objects of type LIGHT: the three flags
  view_layer,     \* names of the lights in context.view_layer.objects
  tree,           \* per material: use_nodes, mesh user, node types, links
  strength,       \* per material and node: the strength socket
  world,          \* world output links and Background strength
  backup,         \* UnifiedIsolateManager._backup
  active_mode,    \* UnifiedIsolateManager._active_mode
  active_identifier, \* UnifiedIsolateManager._active_identifier
  onoff,          \* UnifiedOnOffManager._light/_material/_env_backup
  cache,          \* emissive_material_cache (one cache key)
  link_backup,    \* _emissive_link_backup
  ui,             \* the indicator globals: the checkbox and icon dicts, the
                  \* isolate_env_*_state flags, the lights' light_turn_off_others
                  \* and scene.current_active_light, the state of the
                  \* light-kind checkboxes, the environment checkbox and
                  \* the stored links of the two world output sockets,
                  \* and Scene.group_exclusive_dict of the light groups
  ghost           \* history: what the last operations were, and on what

vars == << light, view_layer, tree, strength, world, backup, active_mode,
           active_identifier, onoff, cache, link_backup, ui, ghost >>

\* ------------------------------------------------------------ dict helpers
DictHas(d, k) == \E i \in 1..Len(d) : d[i].k = k

DictGet(d, k) == d[CHOOSE i \in 1..Len(d) : d[i].k = k].v

DictSet(d, k, v, by) ==
  IF DictHas(d, k)
  THEN [ i \in 1..Len(d) |-> IF d[i].k = k THEN [k |-> k, v |-> v, by |-> by] ELSE d[i] ]
  ELSE Append(d, [k |-> k, v |-> v, by |-> by])

DictKeys(d) == { d[i].k : i \in 1..Len(d) }

\* dicts whose order is never read are functions: d[k] = v and del d[k]
Put(f, k, v) == [ x \in DOMAIN f \cup {k} |-> IF x = k THEN v ELSE f[x] ]

Remove(f, k) == [ x \in DOMAIN f \ {k} |-> f[x] ]

EnvKey(name) == << IF name = "Surface" THEN "env_link_Surface" ELSE "env_link_Volume" >>

\* ------------------------------------------------------------- identifiers
UnifiedIsolateMode ==
  { "ENVIRONMENT_SURFACE", "ENVIRONMENT_VOLUME", "ENVIRONMENT", "MATERIAL_GROUP",
    "MATERIAL", "LIGHT_ROW", "LIGHT_GROUP" }

\* identifier=None, identifier=(keep_lights, keep_emissives), identifier=(mat, node)
NoneId == [t |-> "None", keep_lights |-> {}, keep_emissives |-> {}, mat |-> "", node |-> ""]
PairId(K, E) == [t |-> "pair", keep_lights |-> K, keep_emissives |-> E, mat |-> "", node |-> ""]
KeyId(m, n) == [t |-> "key", keep_lights |-> {}, keep_emissives |-> {}, mat |-> m, node |-> n]

\* the identifiers the operators of LightEditor.py pass for each mode:
\* one light (update_light_turn_off_others), the lights and materials of a
\* group (LIGHT_OT_ToggleGroupExclusive), a node or a material header
\* (LE_OT_isolate_emissive), the materials of a group
\* (EMISSIVE_OT_IsolateGroup), nothing (LE_OT_IsolateEnvironment)
IdentifiersOf(mode) ==
  CASE mode = "LIGHT_ROW" -> { PairId({l}, {}) : l \in LightNames }
    [] mode = "LIGHT_GROUP" -> { PairId(LightNames, {}), PairId({}, {"M1"}),
                                 PairId({LightOrder[1]}, {"M1"}) }
    [] mode = "MATERIAL" -> { KeyId("M1", "N1"), KeyId("M1", "N2"), KeyId("M1", ""),
                              KeyId("M2", "N1") }
    [] mode = "MATERIAL_GROUP" -> { PairId({}, {"M1"}), PairId({}, MatNames) }
    [] OTHER -> { NoneId }

\* ------------------------------------------------------------ the scene
\* update_light_enabled: the update callback of Object.light_enabled
update_light_enabled(o) ==
  [o EXCEPT !.hide_viewport = ~o.light_enabled, !.hide_render = ~o.light_enabled]

\* obj.light_enabled = value (the assignment runs the update callback)
SetLightEnabled(o, value) == update_light_enabled([o EXCEPT !.light_enabled = value])

\* node.inputs.get("Strength") or node.inputs.get("Emission Strength")
HasAnyStrengthSocket(ty) == ty \in { "EMISSION", "BSDF_PRINCIPLED", "BUMP" }

\* node.inputs.get("Strength") if node.type == 'EMISSION' else node.inputs.get("Emission Strength")
HasEmissionStrengthSocket(ty) == ty \in { "EMISSION", "BSDF_PRINCIPLED" }

\* color_socket.is_linked: the shader inputs of an Emission node are its
\* Color socket; those of a Principled BSDF are sockets other than Emission
\* Color
ColorLinked(t, n) == t.ntype[n] = "EMISSION" /\ t.ins[n] # << >>

\* mutant of is_emissive_node_active: the Color socket is not looked at
IsEmissiveIgnoresColor(t, s, n) ==
  IF t.ntype[n] \notin { "EMISSION", "BSDF_PRINCIPLED" } THEN FALSE
  ELSE s[n].link # NoLink \/ s[n].default_value > 0

\* color_on: any(c > 0 for c in color)
is_emissive_node_active(t, s, n) ==
  IF t.ntype[n] \notin { "EMISSION", "BSDF_PRINCIPLED" } THEN FALSE
  ELSE IF s[n].link # NoLink \/ ColorLinked(t, n) THEN TRUE
  ELSE s[n].default_value > 0 /\ t.color_on[n]

\* the linked inputs of a node, in socket order: its shader/colour inputs,
\* then the strength socket
NodeInputs(t, s, n) ==
  IF n = "V" THEN << >>
  ELSE t.ins[n] \o (IF HasAnyStrengthSocket(t.ntype[n]) /\ s[n].link # NoLink
                    THEN << s[n].link[1] >> ELSE << >>)

\* mutant of LinkedInputs: the search does not go past an emission node
LinkedInputsStopAtEmission(t, s, n) ==
  IF n # "V" /\ t.ntype[n] \in { "EMISSION", "BSDF_PRINCIPLED" } THEN << >>
  ELSE NodeInputs(t, s, n)

\* for input_socket in node.inputs: the from-nodes the search goes on with,
\* whatever the type of the node
LinkedInputs(t, s, n) == NodeInputs(t, s, n)

\* mutant of SkipVisited: meeting a visited node again empties found_nodes
SkipVisitedForgets(st) == [st EXCEPT !.found = << >>]

\* if node in visited: return
SkipVisited(st) == st

RECURSIVE find_emission_nodes(_, _, _, _, _)
\* st = [visited, found]; todo = from-nodes still to visit at this level
find_emission_nodes(t, s, todo, i, st) ==
  IF i > Len(todo) THEN st
  ELSE LET n == todo[i] IN
       IF n \in st.visited THEN find_emission_nodes(t, s, todo, i + 1, SkipVisited(st))
       ELSE LET st1 == [visited |-> st.visited \cup {n},
                        found |-> IF n # "V" /\ t.ntype[n] \in { "EMISSION", "BSDF_PRINCIPLED" }
                                  THEN Append(st.found, n) ELSE st.found]
                st2 == find_emission_nodes(t, s, LinkedInputs(t, s, n), 1, st1)
            IN find_emission_nodes(t, s, todo, i + 1, st2)

SelectSeqActive(t, s, found) ==
  LET Test(n) == is_emissive_node_active(t, s, n) IN SelectSeq(found, Test)

\* surface of a tree that has no active material output node
NoOutput == "no_output"

\* mutant of SkipsMaterial: a material whose use_nodes is off is searched
SkipsMaterialIgnoresUseNodes(t) == ~t.used \/ t.surface \in { "", NoOutput }

\* the continue statements of the slot loop: no mesh of the list uses the
\* material, use_nodes is off, there is no active output node, or its
\* Surface input is not linked
SkipsMaterial(t) == ~t.used \/ ~t.use_nodes \/ t.surface \in { "", NoOutput }

\* the (mat, node) entries one material contributes
EmissiveOfMaterial(m, T, S) ==
  IF m \notin DOMAIN T THEN << >>
  ELSE IF SkipsMaterial(T[m]) THEN << >>
  ELSE LET st == find_emission_nodes(T[m], S[m], << T[m].surface >>, 1,
                                     [visited |-> {}, found |-> << >>])
           act == SelectSeqActive(T[m], S[m], st.found)
       IN [ i \in 1..Len(act) |-> << m, act[i] >> ]

RECURSIVE ComputeEmissive(_, _, _)
ComputeEmissive(i, T, S) ==
  IF i > Len(MatOrder) THEN << >>
  ELSE EmissiveOfMaterial(MatOrder[i], T, S) \o ComputeEmissive(i + 1, T, S)

\* emissive_material_cache after clear()
NoCache == << >>

\* mutant of cache_key: the number of materials is not part of the key
cache_key_no_count(T) == << 0, Cardinality(DOMAIN light) >>

\* cache_key: the view layer name (one view layer) and the two counts
cache_key(T) == << Cardinality(DOMAIN T), Cardinality(DOMAIN light) >>

\* find_emissive_objects(context): [list, cache, hit]; hit tells that the
\* list returned is the object the cache holds, not one built by this call
find_emissive_objects(c, T, S) ==
  IF cache_key(T) \in DOMAIN c
  THEN [list |-> c[cache_key(T)], cache |-> c, hit |-> TRUE]
  ELSE LET emissive_objs == ComputeEmissive(1, T, S) IN
       [list |-> emissive_objs,
        cache |-> IF emissive_objs = << >> THEN Remove(c, cache_key(T))
                  ELSE Put(c, cache_key(T), emissive_objs),
        hit |-> FALSE]


\* ------------------------------------------------- UnifiedOnOffManager
\* force_all_off, lights: every LIGHT of bpy.data.objects
RECURSIVE OffLights(_, _, _)
OffLights(i, keep_lights, st) ==
  IF i > Len(ObjectOrder) THEN st
  ELSE IF ObjectOrder[i] \notin DOMAIN st.light THEN OffLights(i + 1, keep_lights, st)
  ELSE LET l == ObjectOrder[i]
           o == st.light[l]
           bk == Put(st.bk, l, << o.hide_viewport, o.hide_render, o.light_enabled >>)
       IN OffLights(i + 1, keep_lights,
            IF l \notin keep_lights
            THEN [light |-> [st.light EXCEPT ![l] =
                     SetLightEnabled([o EXCEPT !.hide_viewport = TRUE, !.hide_render = TRUE], FALSE)],
                  bk |-> bk]
            ELSE [light |-> st.light, bk |-> bk])

\* mutant of SuppressNode: the isolated node is not exempted
SuppressNodeAlways(mode, identifier, m, n) == TRUE

\* force_all_off, materials: every node with a Strength / Emission Strength socket
SuppressNode(mode, identifier, m, n) == ~(mode = "MATERIAL" /\ identifier = KeyId(m, n))

RECURSIVE OffSockets(_, _, _, _, _, _)
OffSockets(mi, ni, T, mode, identifier, st) ==
  IF mi > Len(MatOrder) THEN st
  ELSE IF ni > Len(NodeOrder) \/ MatOrder[mi] \notin DOMAIN T \/ ~T[MatOrder[mi]].use_nodes
       THEN OffSockets(mi + 1, 1, T, mode, identifier, st)
  ELSE LET m == MatOrder[mi]
           n == NodeOrder[ni]
       IN OffSockets(mi, ni + 1, T, mode, identifier,
            IF HasAnyStrengthSocket(T[m].ntype[n]) /\ SuppressNode(mode, identifier, m, n)
            THEN [strength |-> [st.strength EXCEPT ![m][n].default_value = 0],
                  bk |-> Put(st.bk, << m, n >>, st.strength[m][n].default_value)]
            ELSE st)

\* force_all_off, world: disconnect Surface and Volume
RECURSIVE OffWorld(_, _)
OffWorld(i, st) ==
  IF i > Len(EnvSockets) THEN st
  ELSE LET name == EnvSockets[i] IN
       OffWorld(i + 1,
         IF st.world.use_nodes /\ st.world[name] # NoLink
         THEN [world |-> [st.world EXCEPT ![name] = NoLink],
               bk |-> Put(st.bk, name, st.world[name])]
         ELSE st)

\* force_all_off(context, except_mode, except_identifier)
force_all_off(L, T, S, W, oo, except_mode, except_identifier) ==
  LET keep_lights == IF except_mode \in { "LIGHT_ROW", "LIGHT_GROUP" } /\ except_identifier.t # "None"
                     THEN except_identifier.keep_lights ELSE {}
      l1 == OffLights(1, keep_lights, [light |-> L, bk |-> oo.light_backup])
      s1 == OffSockets(1, 1, T, except_mode, except_identifier,
                       [strength |-> S, bk |-> oo.material_backup])
      w1 == OffWorld(1, [world |-> W, bk |-> oo.env_backup])
  IN [light |-> l1.light, strength |-> s1.strength, world |-> w1.world,
      onoff |-> [light_backup |-> l1.bk, material_backup |-> s1.bk, env_backup |-> w1.bk]]

\* ------------------------------------------------- UnifiedIsolateManager
\* mutant of is_active: the identifier is never compared
is_active_mode_only(mode, identifier) ==
  IF mode = "None" THEN active_mode # "None" ELSE active_mode = mode

is_active(mode, identifier) ==
  IF mode = "None" THEN active_mode # "None"
  ELSE IF identifier.t = "None" THEN active_mode = mode
  ELSE active_mode = mode /\ active_identifier = identifier

get_active_info == << active_mode, active_identifier >>

\* mutant of ClearBackup: the records of the previous session are kept
ClearBackupKeepsRecords(b) == b

\* self._backup.clear()
ClearBackup(b) == << >>

\* mutant of BackupLights: the lights are not recorded
BackupLightsSkipped(i, by, b) == b

\* activate: backup of the lights of the view layer
RECURSIVE BackupLights(_, _, _)
BackupLights(i, by, b) ==
  IF i > Len(ObjectOrder) THEN b
  ELSE LET l == ObjectOrder[i] IN
       BackupLights(i + 1, by,
         IF l \in view_layer
         THEN DictSet(b, << l >>, << light[l].hide_viewport, light[l].hide_render >>, by)
         ELSE b)

\* activate: backup of the strength value of every discovered node
RECURSIVE BackupEmissive(_, _, _, _)
BackupEmissive(i, list, by, b) ==
  IF i > Len(list) THEN b
  ELSE LET m == list[i][1]
           n == list[i][2]
       IN BackupEmissive(i + 1, list, by,
            IF HasEmissionStrengthSocket(tree[m].ntype[n])
            THEN DictSet(b, << m, n >>, strength[m][n].default_value, by)
            ELSE b)

\* activate: backup of the linked world output sockets
RECURSIVE BackupWorld(_, _, _)
BackupWorld(i, by, b) ==
  IF i > Len(EnvSockets) THEN b
  ELSE LET name == EnvSockets[i] IN
       BackupWorld(i + 1, by,
         IF world.use_nodes /\ world[name] # NoLink
         THEN DictSet(b, EnvKey(name), world[name], by) ELSE b)

\* activate, LIGHT_GROUP / LIGHT_ROW: rewrite the hide flags of the kept lights
RECURSIVE KeepLights(_, _, _, _)
KeepLights(i, to_keep_enabled, b, L) ==
  IF i > Len(ObjectOrder) THEN L
  ELSE LET l == ObjectOrder[i] IN
       KeepLights(i + 1, to_keep_enabled, b,
         IF l \in view_layer /\ l \in to_keep_enabled
         THEN [L EXCEPT ![l].hide_viewport = DictGet(b, << l >>)[1],
                        ![l].hide_render = DictGet(b, << l >>)[2]]
         ELSE L)

\* activate, MATERIAL: write the backed-up value back to the isolated node
RECURSIVE KeepMaterial(_, _, _, _, _)
KeepMaterial(i, list, identifier, b, S) ==
  IF i > Len(list) THEN S
  ELSE LET m == list[i][1]
           n == list[i][2]
       IN KeepMaterial(i + 1, list, identifier, b,
            IF KeyId(m, n) = identifier /\ HasEmissionStrengthSocket(tree[m].ntype[n])
            THEN [S EXCEPT ![m][n].default_value = DictGet(b, << m, n >>)]
            ELSE S)

\* deactivate: one (key, val) of self._backup.items()
IsEnvLinkKey(k) == k[1] \in { "env_link_Surface", "env_link_Volume" }
SocketOfKey(k) == IF k[1] = "env_link_Surface" THEN "Surface" ELSE "Volume"

\* mutant of KeepWorld: the world outputs stay disconnected
KeepWorldSkipped(i, b, W) == W

\* activate, ENVIRONMENT: link the world outputs again
RECURSIVE KeepWorld(_, _, _)
KeepWorld(i, b, W) ==
  IF i > Len(EnvSockets) THEN W
  ELSE LET name == EnvSockets[i] IN
       KeepWorld(i + 1, b,
         IF W.use_nodes /\ DictHas(b, EnvKey(name))
            /\ DictGet(b, EnvKey(name))[1] \in W.nodes /\ W[name] = NoLink
         THEN [W EXCEPT ![name] = DictGet(b, EnvKey(name))]
         ELSE W)


\* what an observer sees of the scene: light flags, socket values and links
Obs == [light |-> light, strength |-> strength, world |-> world]

NoGhost == [phase |-> "idle", pre |-> << >>, a |-> << >>, n |-> 0]

\* activate(context, mode, identifier)
activate(mode, identifier) ==
  LET by == << mode, identifier >>
      b0 == ClearBackup(backup)
      b1 == BackupLights(1, by, b0)
      fe == find_emissive_objects(cache, tree, strength)
      b2 == BackupEmissive(1, fe.list, by, b1)
      b3 == BackupWorld(1, by, b2)
      off == force_all_off(light, tree, strength, world, onoff, mode, identifier)
      fe2 == find_emissive_objects(fe.cache, tree, off.strength)
  IN /\ backup' = b3
     /\ active_mode' = mode
     /\ active_identifier' = identifier
     /\ onoff' = off.onoff
     /\ light' = IF mode \in { "LIGHT_GROUP", "LIGHT_ROW" }
                 THEN KeepLights(1, identifier.keep_lights, b3, off.light)
                 ELSE off.light
     /\ strength' = IF mode = "MATERIAL"
                    THEN KeepMaterial(1, fe2.list, identifier, b3, off.strength)
                    ELSE off.strength
     /\ world' = IF mode = "ENVIRONMENT" THEN KeepWorld(1, b3, off.world) ELSE off.world
     /\ cache' = IF mode = "MATERIAL" THEN fe2.cache ELSE fe.cache
     /\ UNCHANGED << view_layer, tree, link_backup >>

\* a call of activate by one of the isolate operators
Activate(mode, identifier) ==
  /\ ghost.n < MaxNested
  /\ activate(mode, identifier)
  /\ ghost' = IF active_mode = "None"
              THEN [phase |-> "A", pre |-> Obs, a |-> << mode, identifier >>, n |-> 1]
              ELSE IF ghost.phase = "A" /\ << mode, identifier >> # << active_mode, active_identifier >>
              THEN [phase |-> "AB", pre |-> ghost.pre, a |-> << >>, n |-> ghost.n + 1]
              ELSE [phase |-> "other", pre |-> << >>, a |-> << >>, n |-> ghost.n + 1]
  /\ UNCHANGED ui

\* mutant of RestoreRecord: a recorded world link replaces the link in place
RestoreRecordOverwrites(k, val, st) ==
  IF Len(k) = 2
  THEN LET m == k[1]
           n == k[2]
       IN IF m \in DOMAIN tree /\ tree[m].use_nodes /\ n \in NodeNames
             /\ HasEmissionStrengthSocket(tree[m].ntype[n])
          THEN [st EXCEPT !.strength[m][n].default_value = val]
          ELSE st
  ELSE IF IsEnvLinkKey(k)
  THEN IF st.world.use_nodes /\ val[1] \in st.world.nodes
       THEN [st EXCEPT !.world[SocketOfKey(k)] = val]
       ELSE st
  ELSE IF k[1] \in DOMAIN st.light
       THEN [st EXCEPT !.light[k[1]] =
               SetLightEnabled([st.light[k[1]] EXCEPT !.hide_viewport = val[1],
                                                      !.hide_render = val[2]],
                               ~(val[1] /\ val[2]))]
       ELSE st

\* deactivate: one (key, val) of self._backup.items()
RestoreRecord(k, val, st) ==
  IF Len(k) = 2
  THEN \* emissive node
       LET m == k[1]
           n == k[2]
       IN IF m \in DOMAIN tree /\ tree[m].use_nodes /\ n \in NodeNames
             /\ HasEmissionStrengthSocket(tree[m].ntype[n])
          THEN [st EXCEPT !.strength[m][n].default_value = val]
          ELSE st
  ELSE IF IsEnvLinkKey(k)
  THEN \* environment link
       LET socket_name == SocketOfKey(k) IN
       IF st.world.use_nodes /\ val[1] \in st.world.nodes /\ st.world[socket_name] = NoLink
       THEN [st EXCEPT !.world[socket_name] = val]
       ELSE st
  ELSE \* light
       IF k[1] \in DOMAIN st.light
       THEN [st EXCEPT !.light[k[1]] =
               SetLightEnabled([st.light[k[1]] EXCEPT !.hide_viewport = val[1],
                                                      !.hide_render = val[2]],
                               ~(val[1] /\ val[2]))]
       ELSE st

\* mutant of RestoreAll: the loop ends at the first record whose light,
\* material or node is gone
RECURSIVE RestoreAllStopsAtMissing(_, _, _)
RestoreAllStopsAtMissing(i, b, st) ==
  IF i > Len(b) THEN st
  ELSE LET k == b[i].k
           gone == IF Len(k) = 2
                   THEN k[1] \notin DOMAIN tree
                        \/ ~HasEmissionStrengthSocket(tree[k[1]].ntype[k[2]])
                   ELSE ~IsEnvLinkKey(k) /\ k[1] \notin DOMAIN st.light
       IN IF gone THEN st
          ELSE RestoreAllStopsAtMissing(i + 1, b, RestoreRecord(k, b[i].v, st))

\* deactivate: for key, val in self._backup.items()
RECURSIVE RestoreAll(_, _, _)
RestoreAll(i, b, st) ==
  IF i > Len(b) THEN st
  ELSE RestoreAll(i + 1, b, RestoreRecord(b[i].k, b[i].v, st))

\* deactivate(context)
deactivate ==
  LET st == RestoreAll(1, backup, Obs) IN
  /\ light' = st.light
  /\ strength' = st.strength
  /\ world' = st.world
  /\ backup' = ClearBackup(backup)
  /\ active_mode' = "None"
  /\ active_identifier' = NoneId
  /\ UNCHANGED << view_layer, tree, onoff, cache, link_backup >>

\* a call of deactivate by one of the isolate operators
Deactivate ==
  /\ deactivate
  /\ ghost' = CASE ghost.phase = "A" -> [phase |-> "AD", pre |-> ghost.pre, a |-> ghost.a, n |-> 0]
                [] ghost.phase = "AB" -> [phase |-> "ABD", pre |-> ghost.pre, a |-> << >>, n |-> 0]
                [] ghost.phase = "AU" -> [phase |-> "AUD", pre |-> ghost.pre, a |-> ghost.a, n |-> 0]
                [] OTHER -> NoGhost
  /\ UNCHANGED ui

\* ------------------------------------------- depsgraph_update_post handlers
\* LE_update_light_enabled_on_visibility_change, one light
SyncLight(l, o) ==
  LET new_enabled == ~(o.hide_viewport \/ o.hide_render) IN
  IF l \in view_layer /\ o.light_enabled # new_enabled
  THEN SetLightEnabled(o, new_enabled)
  ELSE o

\* LE_clear_emissive_cache, then LE_update_light_enabled_on_visibility_change
DepsgraphUpdatePost ==
  /\ cache' = NoCache
  /\ light' = [ l \in DOMAIN light |-> SyncLight(l, light[l]) ]
  /\ ghost' = [phase |-> IF active_mode = "None" THEN "idle" ELSE "other",
                pre |-> << >>, a |-> << >>, n |-> ghost.n]
  /\ UNCHANGED << view_layer, tree, strength, world, backup, active_mode,
                  active_identifier, onoff, link_backup, ui >>


\* ------------------------------------------------------- initial scenes
Flags(hv, hr, en) == [hide_viewport |-> hv, hide_render |-> hr, light_enabled |-> en]
AnyFlags == { Flags(hv, hr, en) : hv \in BOOLEAN, hr \in BOOLEAN, en \in BOOLEAN }
\* the flags update_light_enabled leaves: hidden exactly when disabled
SyncedFlags == { Flags(~en, ~en, en) : en \in BOOLEAN }

Tree(use_nodes, used, surface, ty1, ty2, ins1, ins2, c1) ==
  [use_nodes |-> use_nodes, used |-> used, surface |-> surface,
   ntype |-> [ n \in AllNodes |-> IF n = "N1" THEN ty1 ELSE IF n = "N2" THEN ty2 ELSE "VALUE" ],
   ins |-> [ n \in NodeNames |-> IF n = "N1" THEN ins1 ELSE ins2 ],
   color_on |-> [ n \in NodeNames |-> IF n = "N1" THEN c1 ELSE TRUE ]]

\* node trees of a material: output <- N1 with N2 loose; output <- N1 <- N2;
\* a cycle N1 <-> N2; no mesh user; surface unlinked; use_nodes off; black colour
TreeSingle == Tree(TRUE, TRUE, "N1", "EMISSION", "BUMP", << >>, << >>, TRUE)
TreeChain == Tree(TRUE, TRUE, "N1", "MIX_SHADER", "EMISSION", << "N2" >>, << >>, TRUE)
TreeCycle == Tree(TRUE, TRUE, "N1", "EMISSION", "BSDF_PRINCIPLED", << "N2" >>, << "N1" >>, TRUE)
TreeUnused == Tree(TRUE, FALSE, "N1", "EMISSION", "EMISSION", << >>, << >>, TRUE)
TreeNoSurface == Tree(TRUE, TRUE, "", "EMISSION", "BUMP", << >>, << >>, TRUE)
TreeNoNodes == Tree(FALSE, TRUE, "N1", "EMISSION", "BUMP", << >>, << >>, TRUE)
TreeBlack == Tree(TRUE, TRUE, "N1", "EMISSION", "EMISSION", << >>, << >>, FALSE)
TreeNoOutput == Tree(TRUE, TRUE, NoOutput, "EMISSION", "BUMP", << >>, << >>, TRUE)
TreePrincipled == Tree(TRUE, TRUE, "N1", "BSDF_PRINCIPLED", "MIX_SHADER", << >>, << >>, TRUE)

Trees == { TreeSingle, TreeChain, TreeCycle, TreeUnused, TreeNoSurface, TreeNoNodes, TreeBlack }

Socket(v, l) == [default_value |-> v, link |-> l]
Sockets(s1, s2) == [ n \in NodeNames |-> IF n = "N1" THEN s1 ELSE s2 ]

RefLights == [ l \in LightNames |-> Flags(FALSE, FALSE, TRUE) ]
RefTrees == [ m \in MatNames |-> IF m = "M1" THEN TreeSingle ELSE TreePrincipled ]
RefStrength == [ m \in MatNames |-> Sockets(Socket(MaxStrength, NoLink), Socket(1, NoLink)) ]
\* use_nodes: scene.world is set, uses nodes and has an output node;
\* nodes: the names of the shader nodes of the world tree
World(s, v, b) == [Surface |-> s, Volume |-> v, strength |-> b,
                   use_nodes |-> TRUE, nodes |-> WorldNodes]
RefWorld == World(SurfaceSrc, VolumeSrc, 1)

\* the lights vary: the first light takes any flags, the others synced flags;
\* the last light may be outside the view layer
InitLights ==
  /\ light \in { f \in [LightNames -> AnyFlags] :
                   \A l \in LightNames \ { LightOrder[1] } : f[l] \in SyncedFlags }
  /\ view_layer \in { LightNames, LightNames \ { LightOrder[NumLights] } }

\* the materials vary: either the tree of M1 or the strength socket of M1.N1
InitMaterials ==
  \/ /\ \E t \in Trees : tree = [RefTrees EXCEPT !["M1"] = t]
     /\ strength = RefStrength
  \/ /\ tree = RefTrees
     /\ \E v1 \in StrengthVals, l1 \in { NoLink, ValueLink } :
          strength = [RefStrength EXCEPT !["M1"]["N1"] = Socket(v1, l1)]

\* the world varies: which outputs are linked, and the Background strength
InitWorld ==
  \E s \in { NoLink, SurfaceSrc }, v \in { NoLink, VolumeSrc }, b \in { 1, MaxStrength } :
    world = World(s, v, b)

\* a scene with nothing to snapshot: no light in the view layer, no material
\* with nodes, no linked world output
InitBare ==
  /\ light = RefLights
  /\ view_layer = {}
  /\ tree = [ m \in MatNames |-> TreeNoNodes ]
  /\ strength = RefStrength
  /\ world = World(NoLink, NoLink, 1)

\* one aspect of the scene varies, the others take the reference values
InitScene ==
  \/ InitWorld /\ light = RefLights /\ view_layer = LightNames
       /\ tree = RefTrees /\ strength = RefStrength
  \/ InitMaterials /\ light = RefLights /\ view_layer = LightNames /\ world = RefWorld
  \/ InitLights /\ tree = RefTrees /\ strength = RefStrength /\ world = RefWorld
  \/ InitBare

\* the modes of le.isolate_environment; isolate_env[m] is the flag
\* isolate_env_header_state, isolate_env_surface_state, isolate_env_volume_state
EnvModes == { "HEADER", "SURFACE", "VOLUME" }

InitGlobals ==
  /\ backup = << >>
  /\ active_mode = "None"
  /\ active_identifier = NoneId
  /\ onoff = [light_backup |-> << >>, material_backup |-> << >>, env_backup |-> << >>]
  /\ cache = NoCache
  /\ link_backup = << >>
  /\ ui = [group_checkbox_2_state |-> << >>, group_mat_checkbox_state |-> << >>,
           emissive_isolate_icon_state |-> << >>,
           isolate_env |-> [ m \in EnvModes |-> FALSE ],
           light_turn_off_others |-> [ l \in LightNames |-> FALSE ],
           current_active_light |-> "None",
           group_checkbox_1_state |-> << >>, group_lights_original_state |-> << >>,
           environment_checkbox_state |-> [environment |-> TRUE],
           socket_link_backup |-> [Surface |-> NoLink, Volume |-> NoLink],
           world_props |-> << >>,
           group_exclusive_dict |-> << >>]
  /\ ghost = NoGhost

Init == InitScene /\ InitGlobals

ActivateStep == \E mode \in UnifiedIsolateMode : \E identifier \in IdentifiersOf(mode) :
                  Activate(mode, identifier)

Next == ActivateStep \/ Deactivate \/ DepsgraphUpdatePost

Spec == Init /\ [][Next]_vars


\* ------------------------------------------------- LE_OT_ToggleEmission
\* key = f"{mat.name}:{node.name}:Strength"
ToggleKey(m, n) == << m, n, "Strength" >>

\* _emissive_link_backup[mat.name], an empty dict when there is no entry
StoreOf(lb, m) == IF m \in DOMAIN lb THEN lb[m] ELSE << >>

\* nodes_to_toggle: the named node, or for the header every EMISSION /
\* BSDF_PRINCIPLED node with a strength socket, in nt.nodes order
NodesToToggle(m, node_name) ==
  IF node_name # ""
  THEN << node_name >>
  ELSE LET Test(n) == HasEmissionStrengthSocket(tree[m].ntype[n]) IN SelectSeq(NodeOrder, Test)

\* is_on = any(socket.is_linked or socket.default_value > 0 for n in nodes_to_toggle)
SocketOn(sock) == sock.link # NoLink \/ sock.default_value > 0
ToggleIsOn(S, m, nodes) == \E i \in 1..Len(nodes) : SocketOn(S[m][nodes[i]])

\* mutant of ToggleOff: the value is stored after it has been set to 0
ToggleOffStoresZero(sock) ==
  IF sock.link # NoLink
  THEN [sock |-> [sock EXCEPT !.link = NoLink], rec |-> << "LINK", sock.link[1], sock.link[2] >>]
  ELSE [sock |-> [sock EXCEPT !.default_value = 0], rec |-> << "VALUE", 0 >>]

\* turn off: store the link and remove it, or store the value and set 0
ToggleOff(sock) ==
  IF sock.link # NoLink
  THEN [sock |-> [sock EXCEPT !.link = NoLink], rec |-> << "LINK", sock.link[1], sock.link[2] >>]
  ELSE [sock |-> [sock EXCEPT !.default_value = 0], rec |-> << "VALUE", sock.default_value >>]

\* turn on from a record: create the link again, or write the value back
ToggleOnFrom(sock, rec) ==
  IF rec[1] = "LINK"
  THEN [sock EXCEPT !.link = << rec[2], rec[3] >>]
  ELSE [sock EXCEPT !.default_value = rec[2]]

\* turn on without a record: strength_socket.default_value = 1.0
ToggleOnDefault(sock) == [sock EXCEPT !.default_value = 1]

RECURSIVE ToggleNodes(_, _, _, _, _)
\* st = [strength, store]
ToggleNodes(i, m, nodes, is_on, st) ==
  IF i > Len(nodes) THEN st
  ELSE LET n == nodes[i]
           key == ToggleKey(m, n)
           sock == st.strength[m][n]
       IN ToggleNodes(i + 1, m, nodes, is_on,
            IF is_on
            THEN [strength |-> [st.strength EXCEPT ![m][n] = ToggleOff(sock).sock],
                  store |-> Put(st.store, key, ToggleOff(sock).rec)]
            ELSE IF key \in DOMAIN st.store
            THEN [strength |-> [st.strength EXCEPT ![m][n] = ToggleOnFrom(sock, st.store[key])],
                  store |-> Remove(st.store, key)]
            ELSE [strength |-> [st.strength EXCEPT ![m][n] = ToggleOnDefault(sock)],
                  store |-> st.store])

\* what a toggle works on: the sockets of the material and its records
ToggleObs(m) == [strength |-> strength[m], store |-> StoreOf(link_backup, m)]

\* LE_OT_ToggleEmission.execute with mat_name = m, node_name: what it does
\* to the sockets and to _emissive_link_backup
toggle_emission(m, node_name) ==
  LET nodes == NodesToToggle(m, node_name)
      st == ToggleNodes(1, m, nodes, ToggleIsOn(strength, m, nodes),
                        [strength |-> strength, store |-> StoreOf(link_backup, m)])
  IN /\ tree[m].use_nodes
     /\ nodes # << >>
     /\ \A i \in 1..Len(nodes) : HasEmissionStrengthSocket(tree[m].ntype[nodes[i]])
     /\ strength' = st.strength
     /\ link_backup' = IF st.store = << >> THEN Remove(link_backup, m)
                       ELSE Put(link_backup, m, st.store)
     /\ UNCHANGED << light, view_layer, tree, world, backup, active_mode,
                     active_identifier, onoff, cache >>

\* LE_OT_ToggleEmission.execute with mat_name = m, node_name
ToggleEmission(m, node_name) ==
  /\ toggle_emission(m, node_name)
  /\ ghost' = IF ghost.phase = "T1" /\ ghost.a = << m, node_name >>
              THEN [phase |-> "T2", pre |-> ghost.pre, a |-> ghost.a, n |-> 0]
              ELSE [phase |-> "T1", pre |-> ToggleObs(m), a |-> << m, node_name >>, n |-> 0]
  /\ UNCHANGED ui

\* initial scenes for the toggles: the tree of M1 and both its sockets vary
InitToggleScene ==
  /\ \E l1 \in { ValueLink, NoLink }, l2 \in { ValueLink, NoLink },
        v1 \in StrengthVals, v2 \in StrengthVals :
       strength = [RefStrength EXCEPT !["M1"] = Sockets(Socket(v1, l1), Socket(v2, l2))]
  /\ \E t \in Trees : tree = [RefTrees EXCEPT !["M1"] = t]
  /\ light = RefLights
  /\ view_layer = LightNames
  /\ world = RefWorld

InitToggle == InitToggleScene /\ InitGlobals

ToggleStep == \E m \in MatNames : \E node_name \in NodeNames \cup { "" } :
                ToggleEmission(m, node_name)

NextToggle == ToggleStep

SpecToggle == InitToggle /\ [][NextToggle]_vars

\* ===================================================== isolation claims
LightModes == { "LIGHT_ROW", "LIGHT_GROUP" }
GroupModes == { "MATERIAL_GROUP", "LIGHT_GROUP" }
AllOff == Flags(TRUE, TRUE, FALSE)

\* the nodes of material m that carry an emission strength socket
EmissiveNodes(m) ==
  IF tree[m].use_nodes
  THEN { n \in NodeNames : HasEmissionStrengthSocket(tree[m].ntype[n]) }
  ELSE {}

\* C1 (original claim): Round trip: deactivate immediately after activate
\* leaves every light's three flags, every socket value and every world link
\* equal to its value before activate.
C1_RoundTrip == ghost.phase = "AD" => Obs = ghost.pre

\* the records a snapshot of scene o holds: hide flags of the view-layer
\* lights and the linked world outputs
SnapshotIsOf(o) ==
  /\ \A l \in view_layer :
       DictHas(backup, << l >>)
       /\ DictGet(backup, << l >>) = << o.light[l].hide_viewport, o.light[l].hide_render >>
  /\ \A i \in 1..Len(EnvSockets) :
       IF o.world[EnvSockets[i]] # NoLink
       THEN DictHas(backup, EnvKey(EnvSockets[i]))
            /\ DictGet(backup, EnvKey(EnvSockets[i])) = o.world[EnvSockets[i]]
       ELSE ~DictHas(backup, EnvKey(EnvSockets[i]))

\* C2 (original claim): Supersession: activate(B) during session A first
\* undoes A, so B's snapshot is of the un-isolated scene, and one deactivate
\* after activate(A); activate(B) returns the scene to its state before A.
C2_Supersession ==
  /\ ghost.phase = "AB" => SnapshotIsOf(ghost.pre)
  /\ ghost.phase = "ABD" => Obs = ghost.pre

\* C3: Exclusivity: after activate(A); activate(B) with A # B, only B is
\* active: is_active(B) holds, is_active of every other (mode, identifier)
\* is false, and every record of the session backup was taken by B.
C3_Exclusivity ==
  ghost.phase = "AB" =>
    /\ is_active(active_mode, active_identifier)
    /\ is_active("None", NoneId)
    /\ \A mode \in UnifiedIsolateMode : \A identifier \in IdentifiersOf(mode) :
         << mode, identifier >> # << active_mode, active_identifier >>
           => ~is_active(mode, identifier)
    /\ \A i \in 1..Len(backup) : backup[i].by = << active_mode, active_identifier >>

C3_Witness == ghost.phase = "AB" /\ Len(backup) >= 2

\* C6 (original claim): in a light mode with keep set K, after activate the
\* lights outside K are disabled and hidden and the lights in K are
\* unchanged; after deactivate every light enabled before is enabled again.
C6_LightIsolation ==
  /\ (ghost.phase = "A" /\ active_mode \in LightModes) =>
       \A l \in LightNames :
         IF l \in active_identifier.keep_lights
         THEN light[l] = ghost.pre.light[l]
         ELSE light[l] = AllOff
  /\ (ghost.phase = "AD" /\ ghost.a[1] \in LightModes) =>
       \A l \in LightNames :
         ghost.pre.light[l].light_enabled => light[l].light_enabled

C8_EnvLinksByMode ==
  ghost.phase = "A" =>
    CASE active_mode = "ENVIRONMENT_SURFACE" ->
           world.Surface = ghost.pre.world.Surface /\ world.Volume = NoLink
      [] active_mode = "ENVIRONMENT_VOLUME" ->
           world.Volume = ghost.pre.world.Volume /\ world.Surface = NoLink
      [] OTHER -> world.Surface = NoLink /\ world.Volume = NoLink

\* C9 (original claim): in a group mode every emission strength socket of a
\* material named in keep_emissives is unchanged by activate, and the emissive
\* nodes of the other materials are suppressed.
C9_GroupKeepsEmissives ==
  (ghost.phase = "A" /\ active_mode \in GroupModes) =>
    \A m \in MatNames : \A n \in EmissiveNodes(m) :
      IF m \in active_identifier.keep_emissives
      THEN strength[m][n] = ghost.pre.strength[m][n]
      ELSE strength[m][n].default_value = 0 /\ strength[m][n].link = NoLink

\* C10 (original claim): le.isolate_emissive turned on with an empty
\* node_name isolates the whole material: its emissive nodes keep their
\* strength, those of every other material are set to 0.
C10_HeaderIsolatesMaterial ==
  (ghost.phase = "A" /\ active_mode = "MATERIAL" /\ active_identifier.node = "") =>
    \A m \in MatNames : \A n \in EmissiveNodes(m) :
      IF m = active_identifier.mat
      THEN strength[m][n].default_value = ghost.pre.strength[m][n].default_value
      ELSE strength[m][n].default_value = 0

\* C11: after activate(MATERIAL, (m, n)) with n an emissive node of m, the
\* strength socket of n holds the value and link it had before activate, and
\* the value of the strength socket of every other emissive node is 0.
C11_MaterialKeepsNode ==
  (ghost.phase = "A" /\ active_mode = "MATERIAL"
     /\ active_identifier.node \in EmissiveNodes(active_identifier.mat)) =>
    \A m \in MatNames : \A n \in EmissiveNodes(m) :
      IF KeyId(m, n) = active_identifier
      THEN strength[m][n] = ghost.pre.strength[m][n]
      ELSE strength[m][n].default_value = 0

C11_Witness ==
  /\ ghost.phase = "A"
  /\ active_mode = "MATERIAL"
  /\ active_identifier = KeyId("M1", "N1")
  /\ "N1" \in EmissiveNodes("M1")
  /\ ghost.pre.strength["M1"]["N1"].default_value = MaxStrength
  /\ ghost.pre.strength["M2"]["N1"].default_value > 0
  /\ strength["M2"]["N1"].default_value = 0

\* ======================================================== toggle claims
\* the last two operations were LE_OT_ToggleEmission on the same target
ToggledTwice == ghost.phase = "T2"
ToggleMat == ghost.a[1]
ToggleTargets == NodesToToggle(ghost.a[1], ghost.a[2])

\* C4 (original claim): Idempotent toggle: two consecutive toggles of the same
\* target restore link and value of each of its strength sockets to the
\* pre-toggle state and leave no record for those nodes.
C4_IdempotentToggle ==
  ToggledTwice =>
    \A i \in 1..Len(ToggleTargets) :
      /\ strength[ToggleMat][ToggleTargets[i]] = ghost.pre.strength[ToggleTargets[i]]
      /\ ToggleKey(ToggleMat, ToggleTargets[i]) \notin DOMAIN StoreOf(link_backup, ToggleMat)

\* the toggle was addressed to one node whose socket was unlinked with a
\* positive value and had no record
C5_Case ==
  /\ ghost.phase \in { "T1", "T2" }
  /\ ghost.a[2] # ""
  /\ ghost.pre.strength[ghost.a[2]].link = NoLink
  /\ ghost.pre.strength[ghost.a[2]].default_value > 0
  /\ ToggleKey(ghost.a[1], ghost.a[2]) \notin DOMAIN ghost.pre.store

\* C5: for an unlinked strength socket with value v > 0 and no record, a
\* toggle of that node sets the value to 0 and stores v under the node's key;
\* the toggle of the same node that follows sets the value back to v and
\* removes the record.
C5_ToggleValue ==
  C5_Case =>
    LET m == ghost.a[1]
        n == ghost.a[2]
        v == ghost.pre.strength[n].default_value
    IN IF ghost.phase = "T1"
       THEN /\ strength[m][n] = Socket(0, NoLink)
            /\ ToggleKey(m, n) \in DOMAIN StoreOf(link_backup, m)
            /\ StoreOf(link_backup, m)[ToggleKey(m, n)] = << "VALUE", v >>
       ELSE /\ strength[m][n] = Socket(v, NoLink)
            /\ ToggleKey(m, n) \notin DOMAIN StoreOf(link_backup, m)

C5_Witness == C5_Case /\ ghost.phase = "T2" /\ ghost.pre.strength[ghost.a[2]].default_value = MaxStrength

\* ================================================ the emissive cache alone
\* a call of find_emissive_objects(context) for the whole view layer; ghost.a
\* is what the call returned, ghost.pre what the call before it returned
FindEmissiveCall ==
  LET r == find_emissive_objects(cache, tree, strength)
      ret == [list |-> r.list, hit |-> r.hit]
  IN /\ cache' = r.cache
     /\ ghost' = CASE ghost.phase \in { "F1", "F2", "FA" } ->
                       [phase |-> "F2", pre |-> ghost.a, a |-> ret, n |-> 0]
                  [] ghost.phase = "added" ->
                       [phase |-> "FA", pre |-> ghost.a, a |-> ret, n |-> 0]
                  [] OTHER -> [phase |-> "F1", pre |-> << >>, a |-> ret, n |-> 0]
     /\ UNCHANGED << light, view_layer, tree, strength, world, backup, active_mode,
                     active_identifier, onoff, link_backup, ui >>

\* the user adds material m (bpy.data.materials grows by one) and gives it to
\* a mesh of the view layer when t.used
AddMaterial(m, t, socks) ==
  /\ m \notin DOMAIN tree
  /\ tree' = Put(tree, m, t)
  /\ strength' = Put(strength, m, socks)
  /\ ghost' = [phase |-> "added", pre |-> << >>, a |-> << m >>, n |-> 0]
  /\ UNCHANGED << light, view_layer, world, backup, active_mode, active_identifier,
                  onoff, cache, link_backup, ui >>

\* scenes with no, one or two materials
InitCacheScene ==
  /\ \E D \in { {}, { "M1" }, MatNames } : \E t \in Trees \cup { TreeNoOutput } :
       \E v1 \in StrengthVals, l1 \in { NoLink, ValueLink } :
         /\ tree = [ m \in D |-> IF m = "M1" THEN t ELSE TreePrincipled ]
         /\ strength = [ m \in D |-> IF m = "M1" THEN Sockets(Socket(v1, l1), Socket(1, NoLink))
                                      ELSE RefStrength[m] ]
  /\ light = RefLights
  /\ view_layer = LightNames
  /\ world = RefWorld

InitCache == InitCacheScene /\ InitGlobals

AddMaterialStep ==
  \E m \in MatNames : \E t \in { TreeSingle, TreePrincipled, TreeUnused } :
    \E v \in { 0, MaxStrength } :
      AddMaterial(m, t, Sockets(Socket(v, NoLink), Socket(1, NoLink)))


\* ============================= find_emissive_objects with an object list
\* search_objects=None
NoObjects == "None"

\* mutant of UseCache: the cache is used whatever the scope
UseCacheAlways(search_objects) == TRUE

\* use_cache = (search_objects is None)
UseCache(search_objects) == search_objects = NoObjects

\* the loop over objects_to_search; a mesh is named by its material, seen
\* holds the materials already examined
RECURSIVE ComputeEmissiveOver(_, _, _, _, _)
ComputeEmissiveOver(objs, i, T, S, seen) ==
  IF i > Len(objs) THEN << >>
  ELSE IF objs[i] \in seen THEN ComputeEmissiveOver(objs, i + 1, T, S, seen)
  ELSE EmissiveOfMaterial(objs[i], T, S)
         \o ComputeEmissiveOver(objs, i + 1, T, S, seen \cup { objs[i] })

\* find_emissive_objects(context, search_objects): [list, cache, hit]
find_emissive_objects_in(c, T, S, search_objects) ==
  LET use_cache == UseCache(search_objects)
      objects_to_search == IF search_objects = NoObjects THEN MatOrder ELSE search_objects
  IN IF use_cache /\ cache_key(T) \in DOMAIN c
     THEN [list |-> c[cache_key(T)], cache |-> c, hit |-> TRUE]
     ELSE LET emissive_objs == ComputeEmissiveOver(objects_to_search, 1, T, S, {}) IN
          [list |-> emissive_objs,
           cache |-> IF ~use_cache THEN c
                     ELSE IF emissive_objs = << >> THEN Remove(c, cache_key(T))
                     ELSE Put(c, cache_key(T), emissive_objs),
           hit |-> FALSE]

\* a call with an explicit object list; ghost.pre is the cache the call met
FindEmissiveInCall(search_objects) ==
  LET r == find_emissive_objects_in(cache, tree, strength, search_objects) IN
  /\ \A i \in 1..Len(search_objects) : search_objects[i] \in DOMAIN tree
  /\ cache' = r.cache
  /\ ghost' = [phase |-> "FS", pre |-> cache,
               a |-> [list |-> r.list, hit |-> r.hit, scope |-> search_objects], n |-> 0]
  /\ UNCHANGED << light, view_layer, tree, strength, world, backup, active_mode,
                  active_identifier, onoff, link_backup, ui >>

\* the object lists tried: empty, one mesh, all meshes, a mesh named twice
SearchLists == { << >>, << "M1" >>, << "M2" >>, << "M2", "M1" >>, << "M1", "M1" >> }

FindEmissiveInStep == \E search_objects \in SearchLists : FindEmissiveInCall(search_objects)

NextCache == FindEmissiveCall \/ AddMaterialStep \/ DepsgraphUpdatePost \/ FindEmissiveInStep

SpecCache == InitCache /\ [][NextCache]_vars

\* C12 (original claim): a second call of find_emissive_objects with nothing
\* in between is a cache hit and returns the list object of the first call, in
\* every scene; the call after a material was added recomputes and returns the
\* emissive nodes of the scene with that material.
C12_CacheHit ==
  /\ ghost.phase = "F2" => ghost.a.hit /\ ghost.a.list = ghost.pre.list
  /\ ghost.phase = "FA" =>
       ~ghost.a.hit /\ ghost.a.list = ComputeEmissive(1, tree, strength)

\* C12 (amended): a second call with nothing in between is a cache hit
\* returning the list object of the first call exactly when that list is not
\* empty; an empty result is not cached, and the second call computes an
\* equal, new list.  The call after a material was added recomputes.
C12_CacheHitNonEmpty ==
  /\ ghost.phase = "F2" =>
       /\ ghost.a.hit <=> ghost.pre.list # << >>
       /\ ghost.a.list = ghost.pre.list
  /\ ghost.phase = "FA" =>
       ~ghost.a.hit /\ ghost.a.list = ComputeEmissive(1, tree, strength)

C12_Witness == ghost.phase = "F2" /\ ghost.a.hit /\ Len(ghost.a.list) >= 1

\* ============================================ the emission-node search alone
\* the search of find_emissive_objects on the tree of a material: the nodes
\* find_emission_nodes appends to found_nodes, from the Surface link
SearchOf(t, s) ==
  IF t.surface = "" THEN << >>
  ELSE find_emission_nodes(t, s, << t.surface >>, 1, [visited |-> {}, found |-> << >>]).found

\* the search runs on material M1; ghost.a is found_nodes
SearchGraph ==
  /\ ghost.phase = "idle"
  /\ ghost' = [phase |-> "G", pre |-> << >>, a |-> SearchOf(tree["M1"], strength["M1"]), n |-> 0]
  /\ UNCHANGED << light, view_layer, tree, strength, world, backup, active_mode,
                  active_identifier, onoff, cache, link_backup, ui >>

NodeTypes == { "EMISSION", "BSDF_PRINCIPLED", "MIX_SHADER" }
\* the from-nodes of the shader inputs of a node: none, one or two links
InputLists == { << >>, << "N1" >>, << "N2" >>, << "N1", "N2" >>, << "N2", "N1" >> }

\* every graph on two shader nodes and a Value node, cycles included
InitGraphScene ==
  /\ \E ty1 \in NodeTypes, ty2 \in NodeTypes, ins1 \in InputLists, ins2 \in InputLists,
        surface \in { "", "N1", "N2" } :
       tree = [RefTrees EXCEPT !["M1"] = Tree(TRUE, TRUE, surface, ty1, ty2, ins1, ins2, TRUE)]
  /\ \E l1 \in { NoLink, ValueLink } :
       strength = [RefStrength EXCEPT !["M1"]["N1"] = Socket(1, l1)]
  /\ light = RefLights
  /\ view_layer = LightNames
  /\ world = RefWorld

InitGraph == InitGraphScene /\ InitGlobals

NextGraph == SearchGraph

SpecGraph == InitGraph /\ [][NextGraph]_vars

Range(q) == { q[i] : i \in 1..Len(q) }

RECURSIVE Closure(_, _, _)
\* the nodes one reaches from the nodes of X by following links backwards
Closure(t, s, X) ==
  LET Y == X \cup UNION { Range(NodeInputs(t, s, x)) : x \in X }
  IN IF Y = X THEN X ELSE Closure(t, s, Y)

\* the j-th shader input link of node n
FromNode(t, n, j) == t.ins[n][j]
RemoveLink(t, n, j) ==
  [t EXCEPT !.ins[n] = SubSeq(t.ins[n], 1, j - 1) \o SubSeq(t.ins[n], j + 1, Len(t.ins[n]))]

\* the link closes a cycle: its from-node reaches the node it enters
CycleClosing(t, s, n, j) == n \in Closure(t, s, { FromNode(t, n, j) })

\* the link is on a path from the output to an emission node
OnPathToEmission(t, s, n, j) ==
  /\ t.surface # ""
  /\ n \in Closure(t, s, { t.surface })
  /\ \E x \in Closure(t, s, { FromNode(t, n, j) }) \ { "V" } :
       t.ntype[x] \in { "EMISSION", "BSDF_PRINCIPLED" }

\* the emission-capable nodes among X
EmissionCapable(t, X) ==
  { x \in X \ { "V" } : t.ntype[x] \in { "EMISSION", "BSDF_PRINCIPLED" } }

\* C13: the emission-node search ends on every graph, cycles included, and
\* finds the same set of nodes as on the graph without a cycle-closing link
\* that is on no path to an emission node.
C13_CycleSafe ==
  ghost.phase = "G" =>
    LET t == tree["M1"]
        s == strength["M1"]
    IN \A n \in NodeNames : \A j \in 1..Len(t.ins[n]) :
         (CycleClosing(t, s, n, j) /\ ~OnPathToEmission(t, s, n, j)) =>
           Range(ghost.a) = Range(SearchOf(RemoveLink(t, n, j), s))

\* a search that started at an emission node and met a cycle behind it
C13_Witness ==
  /\ ghost.phase = "G"
  /\ ghost.a = << "N1" >>
  /\ tree["M1"].ins["N1"] = << "N2" >>
  /\ tree["M1"].ins["N2"] = << "N2" >>

\* ================================================ is_active, get_active_info
AllIdentifiers == UNION { IdentifiersOf(mode) : mode \in UnifiedIsolateMode }
SessionActive == active_mode # "None"

\* C14: is_active() is true iff a session is active, is_active(mode) iff a
\* session is active in that mode, is_active(mode, identifier) iff a session is
\* active with that mode and that identifier; get_active_info() is the stored
\* pair.  Both are functions of the state and assign nothing.
C14_IsActive ==
  /\ is_active("None", NoneId) <=> SessionActive
  /\ \A mode \in UnifiedIsolateMode :
       is_active(mode, NoneId) <=> (SessionActive /\ active_mode = mode)
  /\ \A mode \in UnifiedIsolateMode : \A identifier \in AllIdentifiers \ { NoneId } :
       is_active(mode, identifier) <=>
         (SessionActive /\ active_mode = mode /\ active_identifier = identifier)
  /\ get_active_info = << active_mode, active_identifier >>

C14_Witness ==
  /\ active_mode = "LIGHT_GROUP"
  /\ active_identifier = PairId({ LightOrder[1] }, { "M1" })
  /\ is_active("LIGHT_GROUP", PairId({ LightOrder[1] }, { "M1" }))
  /\ ~is_active("LIGHT_GROUP", PairId({}, { "M1" }))

\* ======================================================= session invariant
\* C15 (original claim): the session backup is non-empty if and only if a
\* session is active, in every scene.
C15_BackupIffActive == (backup # << >>) <=> SessionActive

\* C15 (amended): without a session the backup is empty; in a session it
\* holds a record for every light of the view layer and for every linked
\* world output, so it is empty just when the scene offered nothing to record.
C15_BackupOnlyWhenActive ==
  /\ ~SessionActive => backup = << >>
  /\ SessionActive => \A l \in view_layer : DictHas(backup, << l >>)
  /\ (ghost.phase = "A") =>
       \A i \in 1..Len(EnvSockets) :
         ghost.pre.world[EnvSockets[i]] # NoLink => DictHas(backup, EnvKey(EnvSockets[i]))

\* a session on the scene with nothing to record
C15_Witness == SessionActive /\ backup = << >> /\ view_layer = {}

\* ===================================== a session with the user in between
\* one session per run, and in it the user makes one edit after activate
\* what the depsgraph handlers do after a change of the scene L
SyncLights(L) == [ l \in DOMAIN L |-> SyncLight(l, L[l]) ]

\* after a user edit: the edit and the backup it met, for the deactivate
\* that follows
Edited(what) ==
  [phase |-> "AU", pre |-> ghost.pre, a |-> what \o << backup >>, n |-> ghost.n]

\* the user links output socket name of the world from node src
UserLinksWorld(name, src) ==
  /\ ghost.phase = "A"
  /\ world.use_nodes /\ src[1] \in world.nodes
  /\ world[name] # src
  /\ world' = [world EXCEPT ![name] = src]
  /\ cache' = NoCache
  /\ light' = SyncLights(light)
  /\ ghost' = Edited(<< "link", name, src >>)
  /\ UNCHANGED << view_layer, tree, strength, backup, active_mode, active_identifier,
                  onoff, link_backup, ui >>

\* the user deletes a light object
DeleteLight(l) ==
  /\ ghost.phase = "A"
  /\ l \in DOMAIN light
  /\ light' = SyncLights(Remove(light, l))
  /\ view_layer' = view_layer \ { l }
  /\ cache' = NoCache
  /\ ghost' = Edited(<< "light", << l >> >>)
  /\ UNCHANGED << tree, strength, world, backup, active_mode, active_identifier,
                  onoff, link_backup, ui >>

\* the user deletes a material
DeleteMaterial(m) ==
  /\ ghost.phase = "A"
  /\ m \in DOMAIN tree
  /\ tree' = Remove(tree, m)
  /\ strength' = Remove(strength, m)
  /\ cache' = NoCache
  /\ light' = SyncLights(light)
  /\ ghost' = Edited(<< "material", << m >> >>)
  /\ UNCHANGED << view_layer, world, backup, active_mode, active_identifier,
                  onoff, link_backup, ui >>

\* a node tree without node n and without the links from it
WithoutNode(t, n) ==
  LET Keep(x) == x # n IN
  [t EXCEPT !.ntype[n] = "None",
            !.surface = IF t.surface = n THEN "" ELSE t.surface,
            !.ins = [ x \in NodeNames |-> IF x = n THEN << >> ELSE SelectSeq(t.ins[x], Keep) ]]

\* the user deletes node n of material m
DeleteNode(m, n) ==
  /\ ghost.phase = "A"
  /\ m \in DOMAIN tree
  /\ tree[m].ntype[n] # "None"
  /\ tree' = [tree EXCEPT ![m] = WithoutNode(tree[m], n)]
  /\ cache' = NoCache
  /\ light' = SyncLights(light)
  /\ ghost' = Edited(<< "node", << m, n >> >>)
  /\ UNCHANGED << view_layer, strength, world, backup, active_mode, active_identifier,
                  onoff, link_backup, ui >>

\* the user deletes shader node x of the world tree, with the links from it
DeleteWorldNode(x) ==
  /\ ghost.phase = "A"
  /\ world.use_nodes /\ x \in world.nodes
  /\ world' = [world EXCEPT !.nodes = world.nodes \ { x },
                             !.Surface = IF world.Surface # NoLink /\ world.Surface[1] = x
                                         THEN NoLink ELSE world.Surface,
                             !.Volume = IF world.Volume # NoLink /\ world.Volume[1] = x
                                        THEN NoLink ELSE world.Volume]
  /\ cache' = NoCache
  /\ light' = SyncLights(light)
  /\ ghost' = Edited(<< "world node", << x >> >>)
  /\ UNCHANGED << view_layer, tree, strength, backup, active_mode, active_identifier,
                  onoff, link_backup, ui >>

\* the user removes the world of the scene
DeleteWorld ==
  /\ ghost.phase = "A"
  /\ world.use_nodes
  /\ world' = [world EXCEPT !.use_nodes = FALSE, !.nodes = {},
                             !.Surface = NoLink, !.Volume = NoLink]
  /\ cache' = NoCache
  /\ light' = SyncLights(light)
  /\ ghost' = Edited(<< "world", << >> >>)
  /\ UNCHANGED << view_layer, tree, strength, backup, active_mode, active_identifier,
                  onoff, link_backup, ui >>

\* deactivate when nt.links.new raises for the recorded link of world output
\* name: the records before it are restored, the exception leaves the loop and
\* the method, and the three lines after the loop do not run; ghost.a holds
\* the records the loop applied before it was left
DeactivateLinkRejected(name) ==
  LET idx == CHOOSE i \in 1..Len(backup) : backup[i].k = EnvKey(name)
      st == RestoreAll(1, SubSeq(backup, 1, idx - 1), Obs)
  IN /\ DictHas(backup, EnvKey(name))
     /\ st.world.use_nodes
     /\ DictGet(backup, EnvKey(name))[1] \in st.world.nodes
     /\ st.world[name] = NoLink
     /\ light' = st.light
     /\ strength' = st.strength
     /\ world' = st.world
     /\ ghost' = IF ghost.phase = "A"
                 THEN [phase |-> "AX", pre |-> ghost.pre,
                       a |-> << "rejected", name, SubSeq(backup, 1, idx - 1) >>, n |-> ghost.n]
                 ELSE [phase |-> "other", pre |-> << >>, a |-> << >>, n |-> ghost.n]
     /\ UNCHANGED << view_layer, tree, backup, active_mode, active_identifier,
                     onoff, cache, link_backup, ui >>

InitUserScene ==
  /\ InitWorld
  /\ light = RefLights
  /\ view_layer = LightNames
  /\ tree = RefTrees
  /\ strength = RefStrength

InitUser == InitUserScene /\ InitGlobals

UserLinksWorldStep ==
  \E i \in 1..Len(EnvSockets) : \E src \in { UserSrc, SurfaceSrc } :
    UserLinksWorld(EnvSockets[i], src)

DeleteStep ==
  \/ \E l \in LightNames : DeleteLight(l)
  \/ \E m \in MatNames : DeleteMaterial(m)
  \/ \E m \in MatNames : \E n \in NodeNames : DeleteNode(m, n)
  \/ \E x \in WorldNodes : DeleteWorldNode(x)
  \/ DeleteWorld

DeactivateLinkRejectedStep == \E i \in 1..Len(EnvSockets) : DeactivateLinkRejected(EnvSockets[i])

\* the first activate of a run: force_all_off has not run before
Untouched ==
  onoff = [light_backup |-> << >>, material_backup |-> << >>, env_backup |-> << >>]

OpenSession == Untouched /\ ActivateStep

NextUser ==
  \/ OpenSession
  \/ Deactivate
  \/ UserLinksWorldStep
  \/ DeleteStep
  \/ DeactivateLinkRejectedStep

SpecUser == InitUser /\ [][NextUser]_vars

\* C16: deactivate creates a recorded world link only when the output socket
\* has no incoming link: a socket left free is linked from the recorded source
\* again, and a link the user made after activate stays in place.
C16_UserLinkKept ==
  /\ ghost.phase = "AD" =>
       \A i \in 1..Len(EnvSockets) :
         ghost.pre.world[EnvSockets[i]] # NoLink =>
           world[EnvSockets[i]] = ghost.pre.world[EnvSockets[i]]
  /\ (ghost.phase = "AUD" /\ ghost.a[1] = "link") => world[ghost.a[2]] = ghost.a[3]

\* the user linked another source to a socket whose link the session recorded
C16_Witness ==
  /\ ghost.phase = "AUD"
  /\ ghost.a[1] = "link"
  /\ ghost.a[2] = "Surface"
  /\ ghost.a[3] = UserSrc
  /\ ghost.pre.world.Surface = SurfaceSrc
  /\ DictHas(ghost.a[4], EnvKey("Surface"))

\* the entity a backup key names is still there
Exists(k) ==
  IF Len(k) = 2
  THEN k[1] \in DOMAIN tree /\ tree[k[1]].use_nodes
       /\ HasEmissionStrengthSocket(tree[k[1]].ntype[k[2]])
  ELSE IF IsEnvLinkKey(k) THEN world.use_nodes
  ELSE k[1] \in DOMAIN light

\* the entity a backup key names is in the state its record holds
Restored(k, val) ==
  IF Len(k) = 2 THEN strength[k[1]][k[2]].default_value = val
  ELSE IF IsEnvLinkKey(k)
  THEN val[1] \in world.nodes => world[SocketOfKey(k)] = val
  ELSE light[k[1]] = Flags(val[1], val[2], ~(val[1] /\ val[2]))

\* C17: after something the backup records was deleted during the session,
\* deactivate skips its record, restores every other record, and ends with no
\* session and an empty backup.
C17_DeletedSkipped ==
  (ghost.phase = "AUD" /\ ghost.a[1] # "link") =>
    /\ ~SessionActive
    /\ backup = << >>
    /\ LET b == ghost.a[3] IN
       \A i \in 1..Len(b) : Exists(b[i].k) => Restored(b[i].k, b[i].v)

\* a recorded light was deleted and the records of three kinds were restored
C17_Witness ==
  /\ ghost.phase = "AUD"
  /\ ghost.a[1] = "light"
  /\ DictHas(ghost.a[3], ghost.a[2])
  /\ Len(ghost.a[3]) >= 4
  /\ world.Surface = SurfaceSrc

\* C18 (original claim): when the node graph rejects the creation of a link,
\* the call does not abort: the other records are still processed and the
\* session ends as if that record had been skipped.
C18_RejectionSkipped ==
  ghost.phase = "AX" =>
    /\ ~SessionActive
    /\ backup = << >>
    /\ \A i \in 1..Len(EnvSockets) :
         (EnvSockets[i] # ghost.a[2] /\ ghost.pre.world[EnvSockets[i]] # NoLink) =>
           world[EnvSockets[i]] = ghost.pre.world[EnvSockets[i]]

\* ================================================== what activate records
\* C19 (original claim): snapshot before mutate: every light, socket value
\* and world link that activate changes has a record in the session backup
\* holding its state before activate.
C19_SnapshotBeforeMutate ==
  ghost.phase = "A" =>
    /\ \A l \in DOMAIN light :
         light[l] # ghost.pre.light[l] =>
           /\ DictHas(backup, << l >>)
           /\ DictGet(backup, << l >>) =
                << ghost.pre.light[l].hide_viewport, ghost.pre.light[l].hide_render >>
    /\ \A m \in DOMAIN tree : \A n \in NodeNames :
         strength[m][n] # ghost.pre.strength[m][n] =>
           /\ DictHas(backup, << m, n >>)
           /\ DictGet(backup, << m, n >>) = ghost.pre.strength[m][n].default_value
    /\ \A i \in 1..Len(EnvSockets) :
         world[EnvSockets[i]] # ghost.pre.world[EnvSockets[i]] =>
           /\ DictHas(backup, EnvKey(EnvSockets[i]))
           /\ DictGet(backup, EnvKey(EnvSockets[i])) = ghost.pre.world[EnvSockets[i]]

\* C20 (original claim): activate suppresses a discovered emissive node that
\* is not kept by removing the link into its strength socket and recording
\* the link's source; only a socket without a link has its value recorded and
\* set to 0.
C20_LinkedSuppressedByUnlink ==
  ghost.phase = "A" =>
    LET discovered == ComputeEmissive(1, tree, ghost.pre.strength) IN
    \A i \in 1..Len(discovered) :
      LET m == discovered[i][1]
          n == discovered[i][2]
          before == ghost.pre.strength[m][n]
      IN SuppressNode(active_mode, active_identifier, m, n) =>
           IF before.link # NoLink
           THEN /\ strength[m][n].link = NoLink
                /\ strength[m][n].default_value = before.default_value
                /\ DictHas(backup, << m, n >>)
                /\ DictGet(backup, << m, n >>) = before.link
           ELSE /\ strength[m][n] = Socket(0, NoLink)
                /\ DictHas(backup, << m, n >>)
                /\ DictGet(backup, << m, n >>) = before.default_value

\* ================================================ the three flags of a light
\* C21 (original claim): for every light the session records (the lights of
\* the view layer) and every combination of its three flags before activate,
\* deactivate leaves hide_viewport, hide_render and light_enabled each equal
\* to its value before activate.
C21_LightFlagsVerbatim ==
  ghost.phase = "AD" =>
    \A l \in view_layer : light[l] = ghost.pre.light[l]

\* ================================================== an interrupted deactivate
\* C22 (original claim): deactivate removes each record from the backup when
\* it applies it, so after a deactivate that was interrupted the records it
\* had applied are no longer in the backup.
C22_AppliedRecordsRemoved ==
  ghost.phase = "AX" =>
    \A i \in 1..Len(ghost.a[3]) : ~DictHas(backup, ghost.a[3][i].k)

\* ================================================ records after the session
\* C23 (original claim): no record outlives its activation: after deactivate
\* the session backup and the three stores of UnifiedOnOffManager hold no
\* record taken during that activation.
C23_NoRecordOutlives ==
  ghost.phase = "AD" =>
    /\ backup = << >>
    /\ onoff.light_backup = << >>
    /\ onoff.material_backup = << >>
    /\ onoff.env_backup = << >>

\* ========================================= LIGHT_OT_ToggleGroupExclusive
\* what the scene fixes for each light and mesh: the kind of the light data,
\* and the names of the collections the object is in (users_collection)
LightKind(l) == IF l \in { "L1", "L3" } THEN "POINT" ELSE "SUN"
LightColls(l) ==
  CASE l = "L1" -> << "A" >>
    [] l = "L2" -> << "Scene Collection" >>
    [] l = "L3" -> << "Scene Collection", "A" >>
    [] OTHER -> << "A" >>
\* the collections of the mesh that uses material m
MeshColls(m) == IF m = "M1" THEN << "A" >> ELSE << "Scene Collection" >>

\* group_key as (prefix, rest): "coll_<name>", "kind_<kind>", and the two
\* keys without a prefix
GroupKeys ==
  { << "coll_", "A" >>, << "coll_", "No Collection" >>, << "kind_", "POINT" >>,
    << "kind_", "EMISSIVE" >>, << "all_lights_alpha" >>, << "all_emissives_alpha" >> }

\* d.get(key, default)
GetOr(d, key, default) == IF key \in DOMAIN d THEN d[key] ELSE default

\* the entries find_emissive_objects appends are (obj, mat, node)
EntryArity == 3

\* for obj, mat in emissive_pairs: the unpacking of one entry into k names
UnpacksInto(k) == EntryArity = k

\* the branches of execute that loop over emissive_pairs
IteratesEmissive(group_key) ==
  \/ group_key[1] = "coll_"
  \/ group_key = << "kind_", "EMISSIVE" >>
  \/ group_key = << "all_emissives_alpha" >>

\* to_keep_enabled: the lights of the view layer the group names
ResolveLights(group_key) ==
  CASE group_key = << "coll_", "No Collection" >> ->
         { l \in view_layer : LightColls(l) = << "Scene Collection" >> }
    [] group_key[1] = "coll_" /\ group_key # << "coll_", "No Collection" >> ->
         { l \in view_layer : \E i \in 1..Len(LightColls(l)) : LightColls(l)[i] = group_key[2] }
    [] group_key[1] = "kind_" /\ group_key # << "kind_", "EMISSIVE" >> ->
         { l \in view_layer : LightKind(l) = group_key[2] }
    [] group_key = << "all_lights_alpha" >> -> view_layer
    [] OTHER -> {}

\* to_keep_emissive: the materials of the entries of list the group names
ResolveEmissives(group_key, list) ==
  CASE group_key = << "coll_", "No Collection" >> ->
         { list[i][1] : i \in { j \in 1..Len(list) :
                                  MeshColls(list[j][1]) = << "Scene Collection" >> } }
    [] group_key[1] = "coll_" /\ group_key # << "coll_", "No Collection" >> ->
         { list[i][1] : i \in { j \in 1..Len(list) :
                                  \E c \in 1..Len(MeshColls(list[j][1])) :
                                    MeshColls(list[j][1])[c] = group_key[2] } }
    [] group_key \in { << "kind_", "EMISSIVE" >>, << "all_emissives_alpha" >> } ->
         { list[i][1] : i \in 1..Len(list) }
    [] OTHER -> {}

\* the group whose toggle opened the session that is active now, << >> when
\* no toggle of this operator did
NoOwner == << >>
Owner == IF ghost.phase \in { "GA", "GX", "GOFF" } THEN ghost.a[2] ELSE NoOwner

\* LIGHT_OT_ToggleGroupExclusive.execute with group_key.  The operator calls
\* find_emissive_objects before activate does; the second call returns what
\* the first returned, so the cache after both is the cache activate leaves.
toggle_group_exclusive(group_key) ==
  LET is_currently_active == GetOr(ui.group_checkbox_2_state, group_key, FALSE)
      new_state == ~is_currently_active
      emissive_pairs == find_emissive_objects(cache, tree, strength)
      raises == IteratesEmissive(group_key) /\ emissive_pairs.list # << >> /\ ~UnpacksInto(2)
      to_keep_enabled == ResolveLights(group_key)
      to_keep_emissive == ResolveEmissives(group_key, emissive_pairs.list)
      identifier == PairId(to_keep_enabled, to_keep_emissive)
      flag(v) == [ui EXCEPT !.group_checkbox_2_state = Put(@, group_key, v)]
  IN IF new_state /\ raises
     THEN \* ValueError leaves execute: only the cache has changed
          /\ cache' = emissive_pairs.cache
          /\ UNCHANGED << light, view_layer, tree, strength, world, backup, active_mode,
                          active_identifier, onoff, link_backup, ui >>
     ELSE IF new_state
     THEN /\ activate("LIGHT_GROUP", identifier)
          /\ ui' = flag(TRUE)
     ELSE /\ IF active_mode = "LIGHT_GROUP"
             THEN deactivate
             ELSE UNCHANGED << light, view_layer, tree, strength, world, backup, active_mode,
                               active_identifier, onoff, cache, link_backup >>
          /\ ui' = flag(FALSE)

\* a call of the operator; ghost.a is the group key and the group whose
\* session is active after the call
ToggleGroupExclusive(group_key) ==
  LET new_state == ~GetOr(ui.group_checkbox_2_state, group_key, FALSE)
      raises == IteratesEmissive(group_key) /\ ~UnpacksInto(2)
                  /\ find_emissive_objects(cache, tree, strength).list # << >>
  IN /\ toggle_group_exclusive(group_key)
     /\ (new_state /\ ~raises) => ghost.n < MaxNested
     /\ ghost' =
          IF new_state /\ raises
          THEN [phase |-> "GX", pre |-> Obs, a |-> << group_key, Owner >>, n |-> ghost.n]
          ELSE IF new_state
          THEN [phase |-> "GA", pre |-> Obs, a |-> << group_key, group_key >>,
                n |-> ghost.n + 1]
          ELSE [phase |-> "GOFF",
                pre |-> [owner |-> Owner, mode |-> active_mode,
                         identifier |-> active_identifier, backup |-> backup],
                a |-> << group_key, IF active_mode = "LIGHT_GROUP" THEN NoOwner ELSE Owner >>,
                n |-> IF active_mode = "LIGHT_GROUP" THEN 0 ELSE ghost.n]

\* scenes with and without emissive materials
InitGroupScene ==
  /\ tree \in { RefTrees, [ m \in MatNames |-> TreeNoNodes ] }
  /\ strength = RefStrength
  /\ light = RefLights
  /\ view_layer = LightNames
  /\ world = RefWorld

InitGroup == InitGroupScene /\ InitGlobals

ToggleGroupExclusiveStep == \E group_key \in GroupKeys : ToggleGroupExclusive(group_key)

\* an isolate operator of another mode opens a session in between
IsolateOtherStep ==
  \E mode \in { "LIGHT_ROW", "ENVIRONMENT" } : \E identifier \in IdentifiersOf(mode) :
    Activate(mode, identifier)

NextGroup == ToggleGroupExclusiveStep \/ IsolateOtherStep

SpecGroup == InitGroup /\ [][NextGroup]_vars

\* C24 (original claim): turning off the exclusive isolate of group G
\* deactivates the session only if the active session is the one opened for
\* G; a session opened for another group or in another mode stays active with
\* its backup untouched.
C24_OffOnlyOwnSession ==
  ghost.phase = "GOFF" =>
    IF ghost.pre.owner = ghost.a[1]
    THEN ~SessionActive /\ backup = << >>
    ELSE /\ active_mode = ghost.pre.mode
         /\ active_identifier = ghost.pre.identifier
         /\ backup = ghost.pre.backup

\* C25 (original claim): for every group key and every scene, turning the
\* exclusive isolate of the group on completes, activates LIGHT_GROUP with the
\* names of the group's lights and of its emissive materials, and sets the
\* group's flag.
C25_GroupOnActivates ==
  ghost.phase \in { "GA", "GX" } =>
    /\ active_mode = "LIGHT_GROUP"
    /\ active_identifier =
         PairId(ResolveLights(ghost.a[1]),
                ResolveEmissives(ghost.a[1], ComputeEmissive(1, tree, ghost.pre.strength)))
    /\ GetOr(ui.group_checkbox_2_state, ghost.a[1], FALSE)

\* C26: a call of find_emissive_objects with an explicit object list neither
\* reads the emissive cache nor changes it: the cache after the call is the
\* cache before it, and the list returned is built by the call from the
\* objects of the list.
C26_ScopedBypassesCache ==
  ghost.phase = "FS" =>
    /\ cache = ghost.pre
    /\ ~ghost.a.hit
    /\ ghost.a.list = ComputeEmissiveOver(ghost.a.scope, 1, tree, strength, {})

\* a scoped call that found an emissive node while the cache was empty, and
\* one that met a cached list longer than its own
C26_Witness ==
  /\ ghost.phase = "FS"
  /\ Len(ghost.a.list) = 1
  /\ cache_key(tree) \in DOMAIN cache
  /\ Len(cache[cache_key(tree)]) = 2

\* ============================================ what the search reports
\* C27 (original claim): the search from the surface input stops at the first
\* emission-capable node it meets: that node is the only one reported for the
\* material.
C27_FirstEmissionWins == ghost.phase = "G" => Len(ghost.a) <= 1

\* C27 (amended): the search goes on through the inputs of an
\* emission-capable node: it reports every emission-capable node that can be
\* reached from the surface input, each once, and a surface node that is
\* emission-capable comes first.
C27_AllReachableReported ==
  ghost.phase = "G" =>
    LET t == tree["M1"]
        s == strength["M1"]
        reach == IF t.surface = "" THEN {} ELSE Closure(t, s, { t.surface })
    IN /\ Range(ghost.a) = EmissionCapable(t, reach)
       /\ Len(ghost.a) = Cardinality(Range(ghost.a))
       /\ (t.surface \in EmissionCapable(t, reach)) => ghost.a[1] = t.surface

\* an emission node behind the emission node the surface is linked from
C27_Witness ==
  /\ ghost.phase = "G"
  /\ tree["M1"].surface = "N1"
  /\ tree["M1"].ins["N1"] = << "N2" >>
  /\ tree["M1"].ins["N2"] = << >>
  /\ ghost.a = << "N1", "N2" >>

\* ======================================== when an emission node is emissive
\* a call of find_emissive_objects(context) that built its list
BuiltList == ghost.phase \in { "F1", "F2", "FA" } /\ ~ghost.a.hit

\* the Emission nodes the search reaches in a material it examines
ReachedEmission(m) ==
  IF m \notin DOMAIN tree \/ ~tree[m].used \/ ~tree[m].use_nodes
       \/ tree[m].surface \in { "", NoOutput }
  THEN {}
  ELSE { n \in Closure(tree[m], strength[m], { tree[m].surface }) \ { "V" } :
           tree[m].ntype[n] = "EMISSION" }

\* C28 (original claim): an Emission node is reported as emissive exactly when
\* its Strength input is linked or holds a value above zero, whatever its
\* Color input is.
C28_ColorIndependent ==
  BuiltList =>
    \A m \in MatNames : \A n \in ReachedEmission(m) :
      (<< m, n >> \in Range(ghost.a.list))
        <=> (strength[m][n].link # NoLink \/ strength[m][n].default_value > 0)

\* C28 (amended): an Emission node is reported as emissive exactly when its
\* Strength or its Color input is linked, or, with neither linked, when the
\* Strength value is above zero and the Color is not black.
C28_ColorCounts ==
  BuiltList =>
    \A m \in MatNames : \A n \in ReachedEmission(m) :
      (<< m, n >> \in Range(ghost.a.list))
        <=> \/ strength[m][n].link # NoLink
            \/ tree[m].ins[n] # << >>
            \/ strength[m][n].default_value > 0 /\ tree[m].color_on[n]

\* a black Emission node with a strength above zero is not reported
C28_Witness ==
  /\ BuiltList
  /\ "N1" \in ReachedEmission("M1")
  /\ strength["M1"]["N1"].link = NoLink
  /\ strength["M1"]["N1"].default_value > 0
  /\ ~tree["M1"].color_on["N1"]
  /\ << "M1", "N1" >> \notin Range(ghost.a.list)

\* ============================================ materials the search skips
\* a material with use_nodes off, without an active output node, or with an
\* unlinked Surface input
Skipped(m) ==
  m \in DOMAIN tree /\ (~tree[m].use_nodes \/ tree[m].surface \in { "", NoOutput })

\* C29: a material that has use_nodes off, no active material output node, or
\* an output node whose Surface input is not linked contributes no entry to
\* the list find_emissive_objects returns; the call returns its list, and a
\* material that comes after the skipped one is still examined: its surface
\* node is listed when it is emissive.
C29_SkippedContributesNothing ==
  BuiltList =>
    /\ \A m \in DOMAIN tree :
         Skipped(m) => \A i \in 1..Len(ghost.a.list) : ghost.a.list[i][1] # m
    /\ \A m \in DOMAIN tree :
         (~Skipped(m) /\ tree[m].used
            /\ is_emissive_node_active(tree[m], strength[m], tree[m].surface))
           => << m, tree[m].surface >> \in Range(ghost.a.list)

\* the first material has no active output node, the second one is listed
C29_Witness ==
  /\ BuiltList
  /\ DOMAIN tree = MatNames
  /\ tree["M1"].surface = NoOutput
  /\ ghost.a.list = << << "M2", "N1" >> >>

\* ================================== EMISSIVE_OT_ToggleGroupAllOff and the store
\* group keys of the emissive header checkboxes: a collection and the
\* alphabetical list
EmissiveGroupKeys == { << "emissive_", "A" >>, << "all_emissives_alpha" >> }

RECURSIVE GroupMaterials(_, _, _, _)
\* filtered_pairs: the first entry of every material the group key selects
GroupMaterials(list, i, group_key, seen_materials) ==
  IF i > Len(list) THEN << >>
  ELSE LET mat == list[i][1]
           selected == IF group_key[1] = "emissive_"
                       THEN MeshColls(mat)[1] = group_key[2]
                       ELSE group_key \in { << "kind_", "EMISSIVE" >>, << "all_emissives_alpha" >> }
       IN IF selected /\ mat \notin seen_materials
          THEN << mat >> \o GroupMaterials(list, i + 1, group_key, seen_materials \cup { mat })
          ELSE GroupMaterials(list, i + 1, group_key, seen_materials)

\* s_key = f"{node.name}:Strength"
GroupKey(n) == << n, "Strength" >>

\* mutant of DropEmptyStore: the emptied store stays in the backup
KeepEmptyStore(lb, m, store) == Put(lb, m, store)

\* if not store: del _emissive_link_backup[mat.name]
DropEmptyStore(lb, m, store) == IF store = << >> THEN Remove(lb, m) ELSE Put(lb, m, store)

RECURSIVE GroupToggleNodes(_, _, _, _, _)
\* the loop over emissive_nodes of one material; st = [strength, store]
GroupToggleNodes(i, m, nodes, is_on, st) ==
  IF i > Len(nodes) THEN st
  ELSE LET n == nodes[i]
           s_key == GroupKey(n)
           sock == st.strength[m][n]
       IN GroupToggleNodes(i + 1, m, nodes, is_on,
            IF is_on
            THEN [strength |-> [st.strength EXCEPT ![m][n] = ToggleOff(sock).sock],
                  store |-> Put(st.store, s_key, ToggleOff(sock).rec)]
            ELSE IF s_key \in DOMAIN st.store
            THEN [strength |-> [st.strength EXCEPT ![m][n] = ToggleOnFrom(sock, st.store[s_key])],
                  store |-> Remove(st.store, s_key)]
            ELSE st)

RECURSIVE GroupToggleMats(_, _, _, _)
\* the loop over filtered_pairs; st = [strength, lb]
GroupToggleMats(j, mats, is_on, st) ==
  IF j > Len(mats) THEN st
  ELSE LET m == mats[j]
           emissive_nodes == NodesToToggle(m, "")
           r == GroupToggleNodes(1, m, emissive_nodes, is_on,
                                 [strength |-> st.strength, store |-> StoreOf(st.lb, m)])
       IN GroupToggleMats(j + 1, mats, is_on,
            IF ~tree[m].use_nodes \/ emissive_nodes = << >> THEN st
            ELSE IF is_on
            THEN [strength |-> r.strength, lb |-> Put(st.lb, m, r.store)]
            ELSE IF m \in DOMAIN st.lb
            THEN [strength |-> r.strength, lb |-> DropEmptyStore(st.lb, m, r.store)]
            ELSE st)

\* EMISSIVE_OT_ToggleGroupAllOff.execute with group_key: what it does to the
\* sockets, the backup, the cache and the checkbox
toggle_group_all_off(group_key) ==
  LET is_on == GetOr(ui.group_mat_checkbox_state, group_key, TRUE)
      emissive_pairs == find_emissive_objects(cache, tree, strength)
      filtered_pairs == GroupMaterials(emissive_pairs.list, 1, group_key, {})
      st == GroupToggleMats(1, filtered_pairs, is_on, [strength |-> strength, lb |-> link_backup])
  IN /\ cache' = emissive_pairs.cache
     /\ strength' = st.strength
     /\ link_backup' = st.lb
     /\ ui' = [ui EXCEPT !.group_mat_checkbox_state = Put(@, group_key, ~is_on)]
     /\ UNCHANGED << light, view_layer, tree, world, backup, active_mode,
                     active_identifier, onoff >>

\* a call of the operator; ghost.pre tells whether M1 had an entry in the
\* backup before the call, ghost.a is is_on
ToggleGroupAllOff(group_key) ==
  /\ toggle_group_all_off(group_key)
  /\ ghost' = [phase |-> "TG", pre |-> "M1" \in DOMAIN link_backup,
               a |-> GetOr(ui.group_mat_checkbox_state, group_key, TRUE), n |-> 0]

ToggleGroupAllOffStep == \E group_key \in EmissiveGroupKeys : ToggleGroupAllOff(group_key)

\* LE_OT_ToggleEmission.execute between the group toggles
ToggleEmissionStep ==
  \E m \in MatNames : \E node_name \in NodeNames \cup { "" } :
    /\ toggle_emission(m, node_name)
    /\ ghost' = [phase |-> "TE", pre |-> << >>, a |-> << >>, n |-> 0]
    /\ UNCHANGED ui

\* scenes for the two toggles: M1 has one or two emission nodes and M2 no
\* nodes, or both have one; the link of M1.N1 varies
InitStoreScene ==
  /\ \E t \in { TreeSingle, TreeCycle } :
       tree \in { [ m \in MatNames |-> IF m = "M1" THEN t ELSE TreeNoNodes ], RefTrees }
  /\ \E l1 \in { ValueLink, NoLink } :
       strength = [RefStrength EXCEPT !["M1"]["N1"] = Socket(MaxStrength, l1)]
  /\ light = RefLights
  /\ view_layer = LightNames
  /\ world = RefWorld

InitStore == InitStoreScene /\ InitGlobals

NextStore == ToggleEmissionStep \/ ToggleGroupAllOffStep

SpecStore == InitStore /\ [][NextStore]_vars

\* C30: after any sequence of LE_OT_ToggleEmission and
\* EMISSIVE_OT_ToggleGroupAllOff executions _emissive_link_backup holds no
\* material entry whose record dictionary is empty: a material has an entry
\* exactly when a record of it waits to be restored.
C30_NoEmptyStore == \A m \in DOMAIN link_backup : link_backup[m] # << >>

\* a group turn-on gave back the last records of M1 and dropped its entry
C30_Witness ==
  /\ ghost.phase = "TG"
  /\ ~ghost.a
  /\ ghost.pre
  /\ "M1" \notin DOMAIN link_backup

\* ===================================== the isolate operators and their flags
\* the part of the state the isolate manager works on, as a value, for
\* handlers that call the manager more than once
CurState ==
  [light |-> light, strength |-> strength, world |-> world, backup |-> backup,
   active_mode |-> active_mode, active_identifier |-> active_identifier,
   onoff |-> onoff, cache |-> cache]

RECURSIVE SnapshotLights(_, _, _, _)
\* activate: backup of the lights of the view layer, read from L
SnapshotLights(i, by, b, L) ==
  IF i > Len(ObjectOrder) THEN b
  ELSE LET l == ObjectOrder[i] IN
       SnapshotLights(i + 1, by,
         IF l \in view_layer
         THEN DictSet(b, << l >>, << L[l].hide_viewport, L[l].hide_render >>, by)
         ELSE b, L)

RECURSIVE SnapshotEmissive(_, _, _, _, _)
\* activate: backup of the strength value of every discovered node, read from S
SnapshotEmissive(i, list, by, b, S) ==
  IF i > Len(list) THEN b
  ELSE LET m == list[i][1]
           n == list[i][2]
       IN SnapshotEmissive(i + 1, list, by,
            IF HasEmissionStrengthSocket(tree[m].ntype[n])
            THEN DictSet(b, << m, n >>, S[m][n].default_value, by)
            ELSE b, S)

RECURSIVE SnapshotWorld(_, _, _, _)
\* activate: backup of the linked world output sockets, read from W
SnapshotWorld(i, by, b, W) ==
  IF i > Len(EnvSockets) THEN b
  ELSE LET name == EnvSockets[i] IN
       SnapshotWorld(i + 1, by,
         IF W.use_nodes /\ W[name] # NoLink
         THEN DictSet(b, EnvKey(name), W[name], by) ELSE b, W)

\* activate(context, mode, identifier) on state s
activate_on(s, mode, identifier) ==
  LET by == << mode, identifier >>
      b0 == ClearBackup(s.backup)
      b1 == SnapshotLights(1, by, b0, s.light)
      fe == find_emissive_objects(s.cache, tree, s.strength)
      b2 == SnapshotEmissive(1, fe.list, by, b1, s.strength)
      b3 == SnapshotWorld(1, by, b2, s.world)
      off == force_all_off(s.light, tree, s.strength, s.world, s.onoff, mode, identifier)
      fe2 == find_emissive_objects(fe.cache, tree, off.strength)
  IN [light |-> IF mode \in { "LIGHT_GROUP", "LIGHT_ROW" }
                THEN KeepLights(1, identifier.keep_lights, b3, off.light)
                ELSE off.light,
      strength |-> IF mode = "MATERIAL"
                   THEN KeepMaterial(1, fe2.list, identifier, b3, off.strength)
                   ELSE off.strength,
      world |-> IF mode = "ENVIRONMENT" THEN KeepWorld(1, b3, off.world) ELSE off.world,
      backup |-> b3,
      active_mode |-> mode,
      active_identifier |-> identifier,
      onoff |-> off.onoff,
      cache |-> IF mode = "MATERIAL" THEN fe2.cache ELSE fe.cache]

\* deactivate(context) on state s
deactivate_on(s) ==
  LET st == RestoreAll(1, s.backup,
                       [light |-> s.light, strength |-> s.strength, world |-> s.world])
  IN [s EXCEPT !.light = st.light, !.strength = st.strength, !.world = st.world,
               !.backup = ClearBackup(s.backup),
               !.active_mode = "None", !.active_identifier = NoneId]

\* the handler leaves the manager and the scene in state s, the flags in u
Commit(s, u) ==
  /\ light' = s.light
  /\ strength' = s.strength
  /\ world' = s.world
  /\ backup' = s.backup
  /\ active_mode' = s.active_mode
  /\ active_identifier' = s.active_identifier
  /\ onoff' = s.onoff
  /\ cache' = s.cache
  /\ ui' = u
  /\ UNCHANGED << view_layer, tree, link_backup >>

\* group_key = f"light_{self.name}"
LightKey(l) == << "light_", l >>

\* update_light_turn_off_others with self.light_turn_off_others False:
\* [s, u] after the else branch
TurnOffOthersOff(l, s, u) ==
  [s |-> IF s.active_mode = "LIGHT_ROW" THEN deactivate_on(s) ELSE s,
   u |-> [u EXCEPT !.current_active_light = IF @ = l THEN "None" ELSE @,
                   !.group_checkbox_2_state = Put(@, LightKey(l), FALSE),
                   !.emissive_isolate_icon_state = [ k \in DOMAIN @ |-> FALSE ]]]

\* mutant of TurnOffOthersOn: the light isolated before keeps its property
TurnOffOthersOnKeepsOther(l, s, u) ==
  [s |-> activate_on(s, "LIGHT_ROW", PairId({l}, {})),
   u |-> [u EXCEPT !.current_active_light = l,
                   !.group_checkbox_2_state = Put(@, LightKey(l), TRUE)]]

\* update_light_turn_off_others with self.light_turn_off_others True; the
\* assignment to the light that was isolated before runs its callback first
TurnOffOthersOn(l, s, u) ==
  LET other == u.current_active_light
      r == IF other \notin { "None", l }
           THEN TurnOffOthersOff(other, s, [u EXCEPT !.light_turn_off_others[other] = FALSE])
           ELSE [s |-> s, u |-> u]
  IN [s |-> activate_on(r.s, "LIGHT_ROW", PairId({l}, {})),
      u |-> [r.u EXCEPT !.current_active_light = l,
                        !.group_checkbox_2_state = Put(@, LightKey(l), TRUE)]]

\* the user clicks the isolate button of light l: the property changes and
\* its update callback runs; ghost.a tells the light and whether another
\* light was isolated before
LightTurnOffOthers(l) ==
  LET value == ~ui.light_turn_off_others[l]
      u0 == [ui EXCEPT !.light_turn_off_others[l] = value]
      r == IF value THEN TurnOffOthersOn(l, CurState, u0) ELSE TurnOffOthersOff(l, CurState, u0)
  IN /\ l \in view_layer
     /\ Commit(r.s, r.u)
     /\ ghost' = [phase |-> "LT", pre |-> << >>,
                  a |-> << l, value /\ ui.current_active_light \notin { "None", l } >>, n |-> 0]

\* the ghost of the other isolate operators of this specification
Isolated == [phase |-> "I", pre |-> << >>, a |-> << >>, n |-> 0]

\* LE_OT_isolate_emissive.execute with mat_name, node_name
IsolateEmissive(mat_name, node_name) ==
  LET key == << mat_name, node_name >>
      is_currently_active == is_active("MATERIAL", KeyId(mat_name, node_name))
      flag(v) == [ui EXCEPT !.emissive_isolate_icon_state = Put(@, key, v)]
  IN /\ IF ~is_currently_active
        THEN Commit(activate_on(CurState, "MATERIAL", KeyId(mat_name, node_name)), flag(TRUE))
        ELSE Commit(deactivate_on(CurState), flag(FALSE))
     /\ ghost' = Isolated

\* EMISSIVE_OT_IsolateGroup.execute with group_key
IsolateGroupEmissive(group_key) ==
  LET is_currently_active == GetOr(ui.group_checkbox_2_state, group_key, FALSE)
      emissive_pairs == find_emissive_objects(cache, tree, strength)
      list == emissive_pairs.list
      to_keep_emissive ==
        IF group_key[1] = "emissive_"
        THEN { list[i][1] : i \in { j \in 1..Len(list) : MeshColls(list[j][1])[1] = group_key[2] } }
        ELSE IF group_key \in { << "kind_", "EMISSIVE" >>, << "all_emissives_alpha" >> }
        THEN { list[i][1] : i \in 1..Len(list) }
        ELSE {}
      s0 == [CurState EXCEPT !.cache = emissive_pairs.cache]
      flag(v) == [ui EXCEPT !.group_checkbox_2_state = Put(@, group_key, v)]
  IN /\ IF ~is_currently_active
        THEN Commit(activate_on(s0, "MATERIAL_GROUP", PairId({}, to_keep_emissive)), flag(TRUE))
        ELSE Commit(IF active_mode = "MATERIAL_GROUP" THEN deactivate_on(s0) ELSE s0, flag(FALSE))
     /\ ghost' = Isolated

\* mode_map of LE_OT_IsolateEnvironment
UnifiedModeOf(mode) ==
  CASE mode = "HEADER" -> "ENVIRONMENT"
    [] mode = "SURFACE" -> "ENVIRONMENT_SURFACE"
    [] mode = "VOLUME" -> "ENVIRONMENT_VOLUME"

\* LE_OT_IsolateEnvironment.execute with mode
IsolateEnvironment(mode) ==
  LET unified_mode == UnifiedModeOf(mode)
      is_currently_active == is_active(unified_mode, NoneId)
      flag(v) == [ui EXCEPT !.isolate_env[mode] = v]
  IN /\ IF ~is_currently_active
        THEN Commit(activate_on(CurState, unified_mode, NoneId), flag(TRUE))
        ELSE Commit(deactivate_on(CurState), flag(FALSE))
     /\ ghost' = Isolated

\* the keys of the two group operators this specification clicks
LightGroupKeys == { << "all_lights_alpha" >> }
MaterialGroupKeys == { << "all_emissives_alpha" >> }

LightTurnOffOthersStep == \E l \in LightNames : LightTurnOffOthers(l)
IsolateEmissiveStep == \E node_name \in { "N1", "" } : IsolateEmissive("M1", node_name)
IsolateGroupEmissiveStep == \E group_key \in MaterialGroupKeys : IsolateGroupEmissive(group_key)
IsolateEnvironmentStep == \E mode \in EnvModes : IsolateEnvironment(mode)
IsolateLightGroupStep ==
  \E group_key \in LightGroupKeys : toggle_group_exclusive(group_key) /\ ghost' = Isolated

InitIsolateScene ==
  /\ tree = RefTrees
  /\ strength = RefStrength
  /\ light = RefLights
  /\ view_layer = LightNames
  /\ world = RefWorld

InitIsolate == InitIsolateScene /\ InitGlobals

NextIsolate ==
  \/ LightTurnOffOthersStep
  \/ IsolateEmissiveStep
  \/ IsolateGroupEmissiveStep
  \/ IsolateLightGroupStep
  \/ IsolateEnvironmentStep

SpecIsolate == InitIsolate /\ [][NextIsolate]_vars

\* the session the control of light l opens
RowSession(l) == active_mode = "LIGHT_ROW" /\ active_identifier = PairId({l}, {})

\* the controls whose indicator is on: an isolate control is named by the
\* flag it sets
ControlsOn ==
  { << "light", l >> : l \in { x \in LightNames :
        ui.light_turn_off_others[x] \/ GetOr(ui.group_checkbox_2_state, LightKey(x), FALSE) } }
  \cup { << "emissive", k >> : k \in { x \in DOMAIN ui.emissive_isolate_icon_state :
                                         ui.emissive_isolate_icon_state[x] } }
  \cup { << "group", k >> : k \in { x \in LightGroupKeys \cup MaterialGroupKeys :
                                      GetOr(ui.group_checkbox_2_state, x, FALSE) } }
  \cup { << "env", m >> : m \in { x \in EnvModes : ui.isolate_env[x] } }

\* C31 (original claim): after any sequence of isolate operations an isolate
\* indicator is True only if the active session of the manager is the one
\* its control activated; at most one control has its indicator True.
C31_IndicatorMeansActive ==
  /\ \A l \in LightNames :
       (ui.light_turn_off_others[l] \/ GetOr(ui.group_checkbox_2_state, LightKey(l), FALSE))
         => RowSession(l)
  /\ \A k \in DOMAIN ui.emissive_isolate_icon_state :
       ui.emissive_isolate_icon_state[k] => is_active("MATERIAL", KeyId(k[1], k[2]))
  /\ \A k \in LightGroupKeys \cup MaterialGroupKeys :
       GetOr(ui.group_checkbox_2_state, k, FALSE)
         => active_mode \in { "LIGHT_GROUP", "MATERIAL_GROUP" }
  /\ \A m \in EnvModes : ui.isolate_env[m] => active_mode = UnifiedModeOf(m)
  /\ Cardinality(ControlsOn) <= 1

\* C37: after any sequence of changes of the lights' light_turn_off_others
\* at most one light has light_turn_off_others True, and
\* scene.current_active_light is that light, or None when no light has it.
C37_OneIsolatedLight ==
  /\ \A l \in LightNames : ui.light_turn_off_others[l] <=> ui.current_active_light = l
  /\ Cardinality({ l \in LightNames : ui.light_turn_off_others[l] }) <= 1

\* the isolate button of a light was clicked while another light was isolated
C37_Witness ==
  /\ ghost.phase = "LT"
  /\ ghost.a[2]
  /\ ui.current_active_light = ghost.a[1]
  /\ RowSession(ghost.a[1])

\* ================================ the group toggle and the cleared cache
\* a call of EMISSIVE_OT_ToggleGroupAllOff.execute: "O1" after a turn-off
\* (ghost.pre is the sockets before it, ghost.a the group key and whether
\* the cache was cleared since), "O2" after the turn-on that follows it
GroupAllOffCall(group_key) ==
  LET is_on == GetOr(ui.group_mat_checkbox_state, group_key, TRUE) IN
  /\ toggle_group_all_off(group_key)
  /\ ghost' = IF is_on
              THEN [phase |-> "O1", pre |-> strength, a |-> << group_key, FALSE >>, n |-> 0]
              ELSE IF ghost.phase = "O1" /\ ghost.a[1] = group_key
              THEN [phase |-> "O2", pre |-> ghost.pre, a |-> ghost.a, n |-> 0]
              ELSE NoGhost

\* LE_clear_emissive_cache, a depsgraph_update_post handler
ClearEmissiveCache ==
  /\ cache' = NoCache
  /\ ghost' = IF ghost.phase = "O1" THEN [ghost EXCEPT !.a[2] = TRUE] ELSE ghost
  /\ UNCHANGED << light, view_layer, tree, strength, world, backup, active_mode,
                  active_identifier, onoff, link_backup, ui >>

GroupAllOffCallStep == \E group_key \in EmissiveGroupKeys : GroupAllOffCall(group_key)

\* scenes for the group toggle: the tree of M1 and the socket of M1.N1 vary
InitAllOffScene ==
  /\ \E t \in Trees : tree = [RefTrees EXCEPT !["M1"] = t]
  /\ \E v1 \in StrengthVals, l1 \in { NoLink, ValueLink } :
       strength = [RefStrength EXCEPT !["M1"]["N1"] = Socket(v1, l1)]
  /\ light = RefLights
  /\ view_layer = LightNames
  /\ world = RefWorld

InitAllOff == InitAllOffScene /\ InitGlobals

NextAllOff == GroupAllOffCallStep \/ ClearEmissiveCache

SpecAllOff == InitAllOff /\ [][NextAllOff]_vars

\* C32 (original claim): two consecutive executions of
\* EMISSIVE_OT_ToggleGroupAllOff with the same group key, a turn-off and the
\* turn-on, leave the strength value and the strength link of every emissive
\* node as they were before the first, also when the emissive cache is
\* cleared between the two.
C32_GroupRoundTrip == ghost.phase = "O2" => strength = ghost.pre

\* ================================== one node, turned off and on by either
\* the ghost after an execution that addresses node M1.N1: "X1" after a
\* turn-off that found the node on (ghost.pre is its socket before, ghost.a
\* the operator), "X2" after the turn-on that follows (ghost.a the two
\* operators)
CrossGhost(op, is_on) ==
  IF is_on /\ SocketOn(strength["M1"]["N1"])
  THEN [phase |-> "X1", pre |-> strength["M1"]["N1"], a |-> << op >>, n |-> 0]
  ELSE IF ~is_on /\ ghost.phase = "X1"
  THEN [phase |-> "X2", pre |-> ghost.pre, a |-> ghost.a \o << op >>, n |-> 0]
  ELSE NoGhost

\* LE_OT_ToggleEmission.execute on M1, for node N1 or for the header row
ToggleEmissionCross ==
  \E node_name \in { "N1", "" } :
    /\ toggle_emission("M1", node_name)
    /\ ghost' = CrossGhost("toggle", ToggleIsOn(strength, "M1", NodesToToggle("M1", node_name)))
    /\ UNCHANGED ui

\* EMISSIVE_OT_ToggleGroupAllOff.execute for a group M1 belongs to
GroupAllOffCross ==
  \E group_key \in EmissiveGroupKeys :
    /\ toggle_group_all_off(group_key)
    /\ ghost' = CrossGhost("group", GetOr(ui.group_mat_checkbox_state, group_key, TRUE))

NextCross == ToggleEmissionCross \/ GroupAllOffCross

SpecCross == InitStore /\ [][NextCross]_vars

\* the records _emissive_link_backup holds for node n of material m, under
\* the key of either operator
RecordsOf(m, n) ==
  IF m \in DOMAIN link_backup
  THEN DOMAIN link_backup[m] \cap { ToggleKey(m, n), GroupKey(n) }
  ELSE {}

\* C33 (original claim): after a node's emission was turned off by
\* LE_OT_ToggleEmission or EMISSIVE_OT_ToggleGroupAllOff, the next turn-on of
\* the node by either operator restores the strength value or link recorded
\* before the turn-off and removes the record: no record stays in
\* _emissive_link_backup for the node.
C33_TurnOnRestores ==
  ghost.phase = "X2" =>
    /\ strength["M1"]["N1"] = ghost.pre
    /\ RecordsOf("M1", "N1") = {}

\* ================================================== LIGHT_OT_ToggleKind
\* the group keys of the checkbox column: every light, and one per light kind
KindGroupKeys == { << "all_lights_alpha" >>, << "kind_", "POINT" >>, << "kind_", "SUN" >> }

\* LIGHT_OT_ToggleKind._get_group_objects, with scene.light_editor_filter empty
\* (every object of the modelled view layer is a light)
get_group_objects(group_key) ==
  LET all_lights == view_layer
  IN IF group_key = << "all_lights_alpha" >> THEN all_lights
     ELSE IF group_key[1] = "kind_"
     THEN { l \in all_lights : LightKind(l) = group_key[2] }
     ELSE {}

\* LIGHT_OT_ToggleKind.execute; the ghost keeps light as it was before the
\* first execution
ToggleKind(group_key) ==
  LET is_on == GetOr(ui.group_checkbox_1_state, group_key, TRUE)
      group_objs == get_group_objects(group_key)
      original_states ==
        IF is_on THEN [ l \in group_objs |-> light[l].light_enabled ]
        ELSE GetOr(ui.group_lights_original_state, group_key, << >>)
      kept == DOMAIN ui.group_lights_original_state \ { group_key }
  IN /\ light' = [ l \in DOMAIN light |->
                     IF l \notin group_objs THEN light[l]
                     ELSE IF is_on THEN SetLightEnabled(light[l], FALSE)
                     ELSE SetLightEnabled(light[l], GetOr(original_states, l, TRUE)) ]
     /\ ui' = [ui EXCEPT
                 !.group_lights_original_state =
                    IF is_on THEN Put(@, group_key, original_states)
                    ELSE [ k \in kept |-> @[k] ],
                 !.group_checkbox_1_state = Put(@, group_key, ~is_on)]
     /\ ghost' = [phase |-> "K", pre |-> IF ghost.phase = "K" THEN ghost.pre ELSE light,
                  a |-> << >>, n |-> 0]
     /\ UNCHANGED << view_layer, tree, strength, world, backup, active_mode,
                     active_identifier, onoff, cache, link_backup >>

ToggleKindStep == \E group_key \in KindGroupKeys : ToggleKind(group_key)

InitKindScene ==
  /\ light \in [LightNames -> SyncedFlags]
  /\ view_layer = LightNames
  /\ tree = RefTrees
  /\ strength = RefStrength
  /\ world = RefWorld

InitKind == InitKindScene /\ InitGlobals

NextKind == ToggleKindStep

SpecKind == InitKind /\ [][NextKind]_vars

\* every checkbox of the column shows on
AllKindBoxesOn == \A k \in KindGroupKeys : GetOr(ui.group_checkbox_1_state, k, TRUE)

\* C34 (original claim): any sequence of LIGHT_OT_ToggleKind executions, on
\* any group keys (overlapping ones such as all_lights_alpha and kind_POINT
\* included), after which every group checkbox is on again leaves the
\* light_enabled of every light as it was before the sequence.
C34_KindRoundTrip ==
  (ghost.phase = "K" /\ AllKindBoxesOn) =>
    \A l \in LightNames : light[l].light_enabled = ghost.pre[l].light_enabled

\* ===================== LE_OT_ToggleEnvironment and LE_OT_toggle_env_socket
\* ui.socket_link_backup holds _surface_link_backup and _volume_link_backup
\* (NoLink for None), ui.world_props the custom properties of the world
WorldHasNodes(W) == W.use_nodes /\ "Background" \in W.nodes

\* the turn-off loop of LE_OT_ToggleEnvironment.execute over ("Surface",
\* "Volume"): st is [W, b], the world and the two backups
RECURSIVE DisconnectOutputs(_, _)
DisconnectOutputs(i, st) ==
  IF i > Len(EnvSockets) THEN st
  ELSE LET name == EnvSockets[i] IN
       DisconnectOutputs(i + 1,
         IF st.W[name] # NoLink
         THEN [W |-> [st.W EXCEPT ![name] = NoLink],
               b |-> [st.b EXCEPT ![name] = st.W[name]]]
         ELSE st)

\* the turn-on loop: the list of backups is built before the loop runs
RECURSIVE ReconnectOutputs(_, _, _)
ReconnectOutputs(i, backups, st) ==
  IF i > Len(EnvSockets) THEN st
  ELSE LET name == EnvSockets[i]
           bk == backups[name]
       IN ReconnectOutputs(i + 1, backups,
            IF bk # NoLink
            THEN [W |-> IF bk[1] \in st.W.nodes /\ st.W[name] = NoLink
                        THEN [st.W EXCEPT ![name] = bk] ELSE st.W,
                  b |-> [st.b EXCEPT ![name] = NoLink]]
            ELSE st)

\* the ghost of the two operators: "E1" after a turn-off of
\* LE_OT_ToggleEnvironment (ghost.pre the world before it), "E2" after the
\* turn-on that follows it, "ES" after le.toggle_env_socket
EnvGhost(phase, pre) == [phase |-> phase, pre |-> pre, a |-> << >>, n |-> 0]

\* LE_OT_ToggleEnvironment.execute
ToggleEnvironment ==
  LET is_on == GetOr(ui.environment_checkbox_state, "environment", TRUE)
      st0 == [W |-> world, b |-> ui.socket_link_backup]
      off == DisconnectOutputs(1, [st0 EXCEPT !.W.strength = 0])
      on == ReconnectOutputs(1, ui.socket_link_backup,
              [st0 EXCEPT !.W.strength =
                 GetOr(ui.world_props, "original_environment_strength", 1)])
      st == IF is_on THEN off ELSE on
  IN IF ~WorldHasNodes(world)
     THEN /\ ghost' = EnvGhost("ES", << >>)
          /\ UNCHANGED << light, view_layer, tree, strength, world, backup, active_mode,
                          active_identifier, onoff, cache, link_backup, ui >>
     ELSE /\ world' = st.W
          /\ ui' = [ui EXCEPT
                      !.socket_link_backup = st.b,
                      !.world_props =
                         IF is_on THEN Put(@, "original_environment_strength", world.strength)
                         ELSE @,
                      !.environment_checkbox_state = Put(@, "environment", ~is_on)]
          /\ ghost' = IF is_on THEN EnvGhost("E1", world)
                      ELSE IF ghost.phase = "E1" THEN EnvGhost("E2", ghost.pre)
                      ELSE EnvGhost("ES", << >>)
          /\ UNCHANGED << light, view_layer, tree, strength, backup, active_mode,
                          active_identifier, onoff, cache, link_backup >>

\* LE_OT_toggle_env_socket.execute
ToggleEnvSocket(socket_name) ==
  LET bk == ui.socket_link_backup[socket_name]
  IN /\ ghost' = EnvGhost("ES", << >>)
     /\ IF ~world.use_nodes
        THEN UNCHANGED << world, ui >>
        ELSE IF world[socket_name] # NoLink
        THEN /\ world' = [world EXCEPT ![socket_name] = NoLink]
             /\ ui' = [ui EXCEPT !.socket_link_backup[socket_name] = world[socket_name]]
        ELSE IF bk = NoLink
        THEN UNCHANGED << world, ui >>
        ELSE /\ world' = IF bk[1] \in world.nodes
                         THEN [world EXCEPT ![socket_name] = bk] ELSE world
             /\ UNCHANGED ui
     /\ UNCHANGED << light, view_layer, tree, strength, backup, active_mode,
                     active_identifier, onoff, cache, link_backup >>

ToggleEnvSocketStep == \E i \in 1..Len(EnvSockets) : ToggleEnvSocket(EnvSockets[i])

InitEnvScene ==
  /\ InitWorld
  /\ light = RefLights
  /\ view_layer = LightNames
  /\ tree = RefTrees
  /\ strength = RefStrength

InitEnv == InitEnvScene /\ InitGlobals

NextEnv == ToggleEnvironment \/ ToggleEnvSocketStep

SpecEnv == InitEnv /\ [][NextEnv]_vars

\* C35 (original claim): two consecutive executions of LE_OT_ToggleEnvironment,
\* a turn-off and the turn-on, leave the Background strength and the Surface
\* and Volume links of the world output as they were before the first, for
\* every sequence of le.toggle_env_socket executions before them.
C35_EnvironmentRoundTrip ==
  ghost.phase = "E2" =>
    /\ world.strength = ghost.pre.strength
    /\ world.Surface = ghost.pre.Surface
    /\ world.Volume = ghost.pre.Volume

\* ===================================== the keys of the session backup
\* a session opened and closed in a scene that has a light named
\* EnvNamedLight; ghost.pre is the scene before activate
KeysActivate ==
  \E mode \in UnifiedIsolateMode : \E identifier \in IdentifiersOf(mode) :
    /\ active_mode = "None"
    /\ activate(mode, identifier)
    /\ ghost' = [phase |-> "KA", pre |-> Obs, a |-> << mode, identifier >>, n |-> 1]
    /\ UNCHANGED ui

KeysDeactivate ==
  /\ active_mode # "None"
  /\ deactivate
  /\ ghost' = [phase |-> "KD", pre |-> << >>, a |-> << >>, n |-> 0]
  /\ UNCHANGED ui

InitKeysScene ==
  /\ light \in [LightNames \cup { EnvNamedLight } -> SyncedFlags]
  /\ view_layer \in { LightNames \cup { EnvNamedLight }, LightNames }
  /\ \E v \in { NoLink, VolumeSrc }, b \in { 1, MaxStrength } : world = World(SurfaceSrc, v, b)
  /\ tree = RefTrees
  /\ strength = RefStrength

InitKeys == InitKeysScene /\ InitGlobals

NextKeys == KeysActivate \/ KeysDeactivate

SpecKeys == InitKeys /\ [][NextKeys]_vars

\* what activate recorded under a string key: the lights of the view layer
\* and the world outputs that were linked
RecordedByName(pre) ==
  { << "light", l >> : l \in view_layer }
    \cup { << "env_link", EnvSockets[i] >> :
             i \in { j \in 1..Len(EnvSockets) : pre.world[EnvSockets[j]] # NoLink } }

\* the key activate gives a recorded light or world link
KeyOfRecorded(e) == IF e[1] = "light" THEN << e[2] >> ELSE EnvKey(e[2])

\* C36 (original claim): every key of the session backup identifies one
\* entity and one kind of record (a light's flags, a node's strength or a
\* world link), whatever the lights are named, names that begin with
\* env_link_ included.
C36_OneEntityPerKey ==
  ghost.phase = "KA" =>
    \A i \in 1..Len(backup) :
      Len(backup[i].k) = 1 =>
        Cardinality({ e \in RecordedByName(ghost.pre) : KeyOfRecorded(e) = backup[i].k }) = 1

\* ================== the places that derive light_enabled from the flags
\* the value each place computes from (hide_viewport, hide_render)
enabled_on_visibility_change(hv, hr) == ~(hv \/ hr)
enabled_on_clear(hv, hr) == IF ~(hv \/ hr) THEN TRUE ELSE FALSE
enabled_on_check(hv, hr) == IF hv /\ hr THEN FALSE ELSE TRUE
enabled_on_deactivate(val) == ~(val[1] /\ val[2])

\* LE_clear_handler, one light
ClearLight(l, o) ==
  IF l \in view_layer
  THEN SetLightEnabled(o, enabled_on_clear(o.hide_viewport, o.hide_render))
  ELSE o

\* LE_check_lights_enabled, one light
CheckLight(l, o) ==
  IF l \in view_layer
  THEN SetLightEnabled(o, enabled_on_check(o.hide_viewport, o.hide_render))
  ELSE o

\* the ghost after one of the places ran: ghost.pre[l] the flags it read for
\* light l, ghost.a the place
VisGhost(place, flags) == [phase |-> "V", pre |-> flags, a |-> << place >>, n |-> 0]

FlagsRead(L) == [ l \in view_layer |-> << L[l].hide_viewport, L[l].hide_render >> ]

\* depsgraph_update_post
VisDepsgraph ==
  /\ cache' = NoCache
  /\ light' = [ l \in DOMAIN light |-> SyncLight(l, light[l]) ]
  /\ ghost' = VisGhost("visibility_change", FlagsRead(light))
  /\ UNCHANGED << view_layer, tree, strength, world, backup, active_mode,
                  active_identifier, onoff, link_backup, ui >>

\* load_post: LE_clear_handler, then LE_check_lights_enabled
VisLoadPost ==
  LET cleared == [ l \in DOMAIN light |-> ClearLight(l, light[l]) ]
  IN /\ light' = [ l \in DOMAIN light |-> CheckLight(l, cleared[l]) ]
     /\ ghost' = VisGhost("load_post", FlagsRead(light))
     /\ UNCHANGED << view_layer, tree, strength, world, backup, active_mode,
                     active_identifier, onoff, cache, link_backup, ui >>

\* an isolate operator opens a session
VisActivate ==
  \E mode \in UnifiedIsolateMode : \E identifier \in IdentifiersOf(mode) :
    /\ active_mode = "None"
    /\ activate(mode, identifier)
    /\ ghost' = [phase |-> "VA", pre |-> << >>, a |-> << >>, n |-> 1]
    /\ UNCHANGED ui

\* deactivate: the flags it reads are the records of the lights
VisDeactivate ==
  /\ active_mode # "None"
  /\ deactivate
  /\ ghost' = VisGhost("deactivate", [ l \in view_layer |-> DictGet(backup, << l >>) ])
  /\ UNCHANGED ui

InitVisScene ==
  /\ InitLights
  /\ view_layer = LightNames
  /\ tree = RefTrees
  /\ strength = RefStrength
  /\ world = RefWorld

InitVis == InitVisScene /\ InitGlobals

NextVis == VisDepsgraph \/ VisLoadPost \/ VisActivate \/ VisDeactivate

SpecVis == InitVis /\ [][NextVis]_vars

\* C38 (original claim): all places that derive light_enabled from the
\* visibility flags of a light compute the same value for every combination
\* of (hide_viewport, hide_render): whichever place ran, the light_enabled it
\* left is the value each of the four derivations gives for the flags read.
C38_SameDerivation ==
  ghost.phase = "V" =>
    \A l \in view_layer :
      LET val == ghost.pre[l] IN
      /\ light[l].light_enabled = enabled_on_visibility_change(val[1], val[2])
      /\ light[l].light_enabled = enabled_on_clear(val[1], val[2])
      /\ light[l].light_enabled = enabled_on_check(val[1], val[2])
      /\ light[l].light_enabled = enabled_on_deactivate(val)

\* ======================================= LG_ToggleGroupExclusive (LightGroup)
\* obj.lightgroup of each light: the first light is in group "G1", the second
\* in no group, the others in "G2"
LightgroupOf(l) == IF l = "L1" THEN "G1" ELSE IF l = "L2" THEN "" ELSE "G2"

\* group_key as (prefix, name): "group_<name>"
ExclusiveGroupKeys == { << "group_", "G1" >>, << "group_", "G2" >> }

\* LG_ToggleGroupExclusive.execute; the lights are those of scene.objects.
\* The ghost: "LG1" after exclusive was turned on (ghost.pre the lights
\* before), "LG2" after it was turned off again for the same group
LG_ToggleGroupExclusive(group_key) ==
  LET is_exclusive == ~GetOr(ui.group_exclusive_dict, group_key, FALSE)
      exclusive_group_name == group_key[2]
  IN /\ ui' = [ui EXCEPT !.group_exclusive_dict = Put(@, group_key, is_exclusive)]
     /\ light' = [ l \in DOMAIN light |->
                     [light[l] EXCEPT !.hide_viewport =
                        IF is_exclusive THEN LightgroupOf(l) # exclusive_group_name
                        ELSE FALSE] ]
     /\ ghost' = IF is_exclusive
                 THEN [phase |-> "LG1", pre |-> light, a |-> group_key, n |-> 0]
                 ELSE IF ghost.phase = "LG1" /\ ghost.a = group_key
                 THEN [phase |-> "LG2", pre |-> ghost.pre, a |-> group_key, n |-> 0]
                 ELSE NoGhost
     /\ UNCHANGED << view_layer, tree, strength, world, backup, active_mode,
                     active_identifier, onoff, cache, link_backup >>

LG_ToggleGroupExclusiveStep ==
  \E group_key \in ExclusiveGroupKeys : LG_ToggleGroupExclusive(group_key)

\* the flags once LE_update_light_enabled_on_visibility_change has run
SettledFlags == { Flags(hv, hr, ~(hv \/ hr)) : hv \in BOOLEAN, hr \in BOOLEAN }

InitLGScene ==
  /\ light \in [LightNames -> SettledFlags]
  /\ view_layer = LightNames
  /\ tree = RefTrees
  /\ strength = RefStrength
  /\ world = RefWorld

InitLG == InitLGScene /\ InitGlobals

NextLG == LG_ToggleGroupExclusiveStep

SpecLG == InitLG /\ [][NextLG]_vars

\* C39 (original claim): LG_ToggleGroupExclusive executed twice for the same
\* light group (exclusive on, then off) leaves the hide_viewport of every
\* light equal to its value before the first execution, lights hidden in the
\* viewport beforehand included.
C39_ExclusiveRoundTrip ==
  ghost.phase = "LG2" =>
    \A l \in DOMAIN light : light[l].hide_viewport = ghost.pre[l].hide_viewport

====
